---- MODULE Spec2Model ----
(***************************************************************************)
(* Access-decision engine of the Malia Pro Access app.                     *)
(*                                                                         *)
(* State: the four database tables (lib/database.js) and the last          *)
(* request/response pair served.  The upstream Shopify store is external:  *)
(* what it answers to one call (a product, the collection list, a          *)
(* customer, or a failure) is an input of the request that makes the call. *)
(*                                                                         *)
(* Strings that the code searches with String.prototype.includes are       *)
(* sequences of pieces, so that "contains as a substring" and "is an       *)
(* element of the comma-separated list" are different things.              *)
(* JavaScript truthiness is kept: hasAccess is the truthiness of the value *)
(* the code returns.  Product and collection ids are integers; the         *)
(* database compares a path parameter "12345" with the bigint column       *)
(* 12345 as equal.  Customer ids are strings because the path segment      *)
(* 'null' and the JSON value null differ.                                  *)
(***************************************************************************)
EXTENDS Integers, Sequences, FiniteSets, TLC

VARIABLES app_settings, product_restrictions, collection_exceptions,
          access_logs, last,
          requests,    \* createRateLimit: the Map of key -> timestamps
          now,         \* Date.now(), in milliseconds
          admitted,    \* history: per key, the times of its admitted calls
          lastCall,    \* history: per key, the time of its latest call
          checkout,    \* Checkout.jsx: the extension's state and its requests
          upserts,     \* setRestriction calls in progress
          settings_file  \* data/access-control-settings.json, and as
                         \* history the values last saved per endpoint

vars == <<app_settings, product_restrictions, collection_exceptions,
          access_logs, last, requests, now, admitted, lastCall,
          checkout, upserts, settings_file>>

\* the rate limiter's state, its clock and its history
limiterVars == <<requests, now, admitted, lastCall>>

\* the state outside the database tables and the limiter
sideVars == <<checkout, upserts, settings_file>>

(***************************************************************************)
(* Bounds and input domains                                                *)
(***************************************************************************)
MaxCart == 2

Shops == {"s1", "s2"}
Products == {1, 2}
Collections == {10, 20}

JsNull == "<null>"          \* the JSON value null / undefined
CustIds == {"101", "102", "103", "104", "105", "106"}

\* customer.tags as the upstream stores it, one comma-separated string
CustomerTags ==
  [c \in CustIds |->
     CASE c = "101" -> <<"butterfly_paid">>
       [] c = "102" -> <<"not_", "butterfly_paid">>
       [] c = "103" -> <<"verified", ",", " ", "butterfly_paid">>
       [] c = "104" -> <<"custom_tag">>
       [] c = "105" -> <<>>
       [] c = "106" -> <<"verified">>]

DefaultTag == <<"butterfly_paid">>
CustomTag == <<"custom_tag">>
VerifiedTag == <<"verified">>
DefaultEducation == <<"courses", ",", "in-person-education-1">>

(***************************************************************************)
(* String helpers                                                          *)
(***************************************************************************)
\* String.prototype.includes
Includes(s, sub) ==
  \E i \in 0..(Len(s) - Len(sub)) : SubSeq(s, i + 1, i + Len(sub)) = sub

\* String.prototype.trim: drop leading and trailing blanks
RECURSIVE TrimLeft(_)
TrimLeft(s) ==
  IF s # <<>> /\ Head(s) = " " THEN TrimLeft(Tail(s)) ELSE s

RECURSIVE TrimRight(_)
TrimRight(s) ==
  IF s # <<>> /\ s[Len(s)] = " " THEN TrimRight(SubSeq(s, 1, Len(s) - 1)) ELSE s

Trim(s) == TrimRight(TrimLeft(s))

\* String.prototype.split(','): the sequence of parts between commas
RECURSIVE Split(_, _, _)
Split(s, cur, acc) ==
  IF s = <<>> THEN Append(acc, cur)
  ELSE IF Head(s) = "," THEN Split(Tail(s), <<>>, Append(acc, cur))
  ELSE Split(Tail(s), Append(cur, Head(s)), acc)

\* customer.tags ? customer.tags.split(',').map(tag => tag.trim()) : []
TagList(tags) ==
  IF tags = <<>> THEN <<>>
  ELSE LET parts == Split(tags, <<>>, <<>>)
       IN [i \in 1..Len(parts) |-> Trim(parts[i])]

\* Array.prototype.includes on the split list
ListIncludes(list, x) == \E i \in 1..Len(list) : list[i] = x

\* String.prototype.toLowerCase, piece by piece
LowerPiece(p) ==
  CASE p = "Education" -> "education"
    [] p = "Flutter" -> "flutter"
    [] p = "Courses" -> "courses"
    [] p = "Online " -> "online "
    [] p = "Hair Color" -> "hair color"
    [] OTHER -> p

ToLowerCase(s) == [i \in 1..Len(s) |-> LowerPiece(s[i])]

(***************************************************************************)
(* lib/database.js                                                         *)
(***************************************************************************)
RestrictionRows(shopDomain, productId) ==
  {r \in product_restrictions :
      r.shop_domain = shopDomain /\ r.product_id = productId}

ExceptionRows(shopDomain) ==
  {r \in collection_exceptions : r.shop_domain = shopDomain}

SettingsRows(shopDomain) ==
  {r \in app_settings : r.shop_domain = shopDomain}

\* AccessLogs.log: the inserted row; created_at defaults to the current time
LogRecord(shopDomain, productId, customerId, accessType) ==
  [shop_domain |-> shopDomain, product_id |-> productId,
   customer_id |-> customerId, access_type |-> accessType,
   created_at |-> now]

SettingsRow(shopDomain, settings) ==
  [shop_domain |-> shopDomain, is_enabled |-> settings.is_enabled,
   butterfly_paid_tag |-> settings.butterfly_paid_tag,
   education_collections |-> settings.education_collections]

\* AppSettings.createOrUpdate: the table after the call
createOrUpdate(shopDomain, settings) ==
  LET existing == SettingsRows(shopDomain)
  IN IF existing # {}
       THEN (app_settings \ existing)
              \cup {SettingsRow(shopDomain, settings) : r \in existing}
       ELSE app_settings \cup {SettingsRow(shopDomain, settings)}

\* ProductRestrictions.setRestriction: the table after the call
setRestriction_InsertAlways(shopDomain, productId, isRestricted, customMessage) ==
  product_restrictions \cup
    {[shop_domain |-> shopDomain, product_id |-> productId,
      is_restricted |-> isRestricted, custom_message |-> customMessage]}

setRestriction(shopDomain, productId, isRestricted, customMessage) ==
  LET existing == RestrictionRows(shopDomain, productId)
  IN IF existing # {}
       THEN (product_restrictions \ existing)
              \cup {[r EXCEPT !.is_restricted = isRestricted,
                              !.custom_message = customMessage] : r \in existing}
       ELSE product_restrictions \cup
              {[shop_domain |-> shopDomain, product_id |-> productId,
                is_restricted |-> isRestricted,
                custom_message |-> customMessage]}

\* CollectionExceptions.getByCollection
ExceptionRow(shopDomain, collectionId) ==
  {r \in collection_exceptions :
      r.shop_domain = shopDomain /\ r.collection_id = collectionId}

\* CollectionExceptions.setException: the table after the call
setException(shopDomain, collectionId, isException) ==
  LET existing == ExceptionRow(shopDomain, collectionId)
  IN IF existing # {}
       THEN (collection_exceptions \ existing)
              \cup {[r EXCEPT !.is_exception = isException] : r \in existing}
       ELSE collection_exceptions \cup
              {[shop_domain |-> shopDomain, collection_id |-> collectionId,
                is_exception |-> isException]}

\* db(table).where('shop_domain', shopDomain).del(): the table after it
delShop(table, shopDomain) == {r \in table : r.shop_domain # shopDomain}

\* milliseconds in a day: startDate.setDate(startDate.getDate() - days)
DayMs == 86400000

\* created_at >= startDate for startDate = now - days * DayMs, written with
\* the age of the row so that no number leaves the 32-bit integers
AtOrAfterStartDate(created_at, days) ==
  LET age == now - created_at
  IN \/ age \div DayMs < days
     \/ age \div DayMs = days /\ age % DayMs = 0

\* AccessLogs.getAnalytics: the count of the shop's rows per access_type
getAnalytics_EveryShop(shopDomain, days) ==
  LET rows == {i \in 1..Len(access_logs) :
                 AtOrAfterStartDate(access_logs[i].created_at, days)}
      types == {access_logs[i].access_type : i \in rows}
  IN {[access_type |-> t,
       count |-> Cardinality({i \in rows : access_logs[i].access_type = t})] :
        t \in types}

getAnalytics(shopDomain, days) ==
  LET rows == {i \in 1..Len(access_logs) :
                 /\ access_logs[i].shop_domain = shopDomain
                 /\ AtOrAfterStartDate(access_logs[i].created_at, days)}
      types == {access_logs[i].access_type : i \in rows}
  IN {[access_type |-> t,
       count |-> Cardinality({i \in rows : access_logs[i].access_type = t})] :
        t \in types}

\* the decimal digits of a natural number
RECURSIVE ToDecimal(_)
ToDecimal(n) ==
  IF n < 10 THEN <<n>> ELSE Append(ToDecimal(n \div 10), n % 10)

\* count('* as count') as the client returns it: pg returns the bigint as
\* its decimal string, sqlite3 as a number
countColumn(client, n) ==
  IF client = "pg" THEN [string |-> ToDecimal(n)] ELSE [number |-> n]

(***************************************************************************)
(* Upstream answers                                                        *)
(***************************************************************************)
\* What getProduct and getCollections answer during one resolution, and the
\* collections the product really belongs to upstream (memberOf).
CatalogEnvs ==
  {[product |-> p, collOk |-> TRUE, collections |-> {}, memberOf |-> {}] :
      p \in {"throw", "null", "notype"}}
  \cup {[product |-> "typed", collOk |-> FALSE, collections |-> {}, memberOf |-> {}]}
  \cup {[product |-> "typed", collOk |-> TRUE, collections |-> lm[1], memberOf |-> lm[2]] :
          lm \in {x \in (SUBSET Collections) \X (SUBSET Collections) : x[2] \subseteq x[1]}}

CustomerOk(c) == [kind |-> "ok", id |-> c, tags |-> CustomerTags[c]]
CustomerNull == [kind |-> "null"]
CustomerThrow == [kind |-> "throw"]

\* (customer id sent, answer of getCustomer for it)
PathCustomerCases ==
  {[customerId |-> c, fetch |-> CustomerOk(c)] : c \in CustIds}
  \cup {[customerId |-> "101", fetch |-> CustomerNull],
        [customerId |-> "101", fetch |-> CustomerThrow],
        [customerId |-> "null", fetch |-> CustomerThrow]}

BodyCustomerCases ==
  {[customerId |-> c, fetch |-> CustomerOk(c)] : c \in {"101", "102", "104", "105"}}
  \cup {[customerId |-> "101", fetch |-> CustomerThrow],
        [customerId |-> JsNull, fetch |-> CustomerThrow]}

(***************************************************************************)
(* lib/shopify-api.js: ShopifyAPIClient                                    *)
(***************************************************************************)
validateCustomerAccess(customerId, fetch, requiredTag) ==
  IF customerId = JsNull
    THEN [hasAccess |-> FALSE, reason |-> "not_logged_in"]
  ELSE IF fetch.kind = "throw"
    THEN [hasAccess |-> FALSE, reason |-> "error"]
  ELSE IF fetch.kind = "null"
    THEN [hasAccess |-> FALSE, reason |-> "customer_not_found"]
  ELSE LET hasTag == fetch.tags # <<>> /\ Includes(fetch.tags, requiredTag)
       IN [hasAccess |-> hasTag,
           reason |-> IF hasTag THEN "authorized" ELSE "no_tag",
           customer |-> fetch.id]

\* mutant: the collection exceptions are consulted before the override row
isProductRestricted_ExceptionsFirst(productId, shopDomain, env) ==
  LET restriction == RestrictionRows(shopDomain, productId)
      exceptionCollections == ExceptionRows(shopDomain)
  IN IF env.product = "typed" /\ env.collOk
        /\ \E collection \in env.collections :
              \E ex \in exceptionCollections :
                 ex.collection_id = collection /\ ex.is_exception
       THEN FALSE
     ELSE IF restriction # {}
       THEN (CHOOSE r \in restriction : TRUE).is_restricted
     ELSE TRUE

isProductRestricted(productId, shopDomain, env) ==
  LET restriction == RestrictionRows(shopDomain, productId)
      exceptionCollections == ExceptionRows(shopDomain)
  IN IF restriction # {}
       THEN (CHOOSE r \in restriction : TRUE).is_restricted
     ELSE IF env.product = "throw" THEN TRUE
     ELSE IF env.product = "typed"
       THEN IF ~env.collOk THEN TRUE
            ELSE IF \E collection \in env.collections :
                      \E ex \in exceptionCollections :
                         ex.collection_id = collection /\ ex.is_exception
                   THEN FALSE
                   ELSE TRUE
     ELSE TRUE

\* isProductRestricted: the upstream requests one call sends, getProduct
\* when there is no override row and getCollections when that product has a
\* product_type
upstreamFetches(productId, shopDomain, env) ==
  LET restriction == RestrictionRows(shopDomain, productId)
  IN IF restriction # {} THEN [product |-> 0, collections |-> 0]
     ELSE IF env.product = "typed" THEN [product |-> 1, collections |-> 1]
     ELSE [product |-> 1, collections |-> 0]

\* GET /api/admin/products: isRestricted and customMessage of one product
adminProductStatus(productId, shopDomain) ==
  LET restriction == RestrictionRows(shopDomain, productId)
  IN IF restriction # {}
       THEN LET r == CHOOSE x \in restriction : TRUE
            IN [isRestricted |-> r.is_restricted,
                customMessage |-> r.custom_message]
       ELSE [isRestricted |-> TRUE, customMessage |-> JsNull]

(***************************************************************************)
(* middleware/access-control.js: createRateLimit(windowMs, max)            *)
(***************************************************************************)
\* the limiter under study is createRateLimit(60 * 1000, 3)
windowMs == 60000
max == 3

\* req.ip of the callers
Keys == {"ip1", "ip2"}

\* the values Date.now() takes, in milliseconds after the first request
Instants == {0, 1000, 59999, 60000, 61000}

\* new Map()
EmptyMap == [ip \in {} |-> <<>>]

\* timestamps.filter(timestamp => timestamp > windowStart)
validTimestamps_AtOrAfterNow(timestamps, windowStart) ==
  SelectSeq(timestamps, LAMBDA timestamp : timestamp >= windowStart + windowMs)

validTimestamps(timestamps, windowStart) ==
  SelectSeq(timestamps, LAMBDA timestamp : timestamp > windowStart)

\* the clean-up loop over requests.entries(): the map after it
reap_KeepEmpty(map, windowStart) ==
  [ip \in DOMAIN map |-> validTimestamps(map[ip], windowStart)]

reap(map, windowStart) ==
  LET kept == {ip \in DOMAIN map : Len(validTimestamps(map[ip], windowStart)) # 0}
  IN [ip \in kept |-> validTimestamps(map[ip], windowStart)]

\* one call of the middleware for key at time t: whether next() is called,
\* and the map it leaves
rateLimit_CountAboveMax(map, key, t) ==
  LET reaped == reap(map, t - windowMs)
      userRequests == IF key \in DOMAIN reaped THEN reaped[key] ELSE <<>>
  IN IF Len(userRequests) > max
       THEN [admit |-> FALSE, requests |-> reaped]
       ELSE [admit |-> TRUE,
             requests |-> [ip \in DOMAIN reaped \cup {key} |->
                             IF ip = key THEN Append(userRequests, t)
                             ELSE reaped[ip]]]

rateLimit(map, key, t) ==
  LET windowStart == t - windowMs
      reaped == reap(map, windowStart)
      userRequests == IF key \in DOMAIN reaped THEN reaped[key] ELSE <<>>
  IN IF Len(userRequests) >= max
       THEN [admit |-> FALSE, requests |-> reaped]
       ELSE [admit |-> TRUE,
             requests |-> [ip \in DOMAIN reaped \cup {key} |->
                             IF ip = key THEN Append(userRequests, t)
                             ELSE reaped[ip]]]

(***************************************************************************)
(* routes: decision handlers                                               *)
(***************************************************************************)
\* GET /api/check-access/:productId/:customerId, after validateShopSession;
\* logOk: whether the insert of AccessLogs.log succeeds
checkAccess_LogDenialsOnly(shopDomain, productId, customerId, fetch, env, logOk) ==
  LET isRestricted == isProductRestricted(productId, shopDomain, env)
      accessResult == validateCustomerAccess(customerId, fetch, DefaultTag)
  IN IF ~isRestricted
       THEN [status |-> 200,
             body |-> [hasAccess |-> TRUE, reason |-> "not_restricted"],
             logs |-> <<>>]
       ELSE IF accessResult.hasAccess
         THEN [status |-> 200, body |-> accessResult, logs |-> <<>>]
       ELSE IF ~logOk
         THEN [status |-> 500,
               body |-> [error |-> "Access check failed"],
               logs |-> <<>>]
       ELSE [status |-> 200,
             body |-> accessResult,
             logs |-> <<LogRecord(shopDomain, productId, customerId,
                                  accessResult.reason)>>]

checkAccess(shopDomain, productId, customerId, fetch, env, logOk) ==
  LET isRestricted == isProductRestricted(productId, shopDomain, env)
      accessResult == validateCustomerAccess(customerId, fetch, DefaultTag)
  IN IF ~isRestricted
       THEN [status |-> 200,
             body |-> [hasAccess |-> TRUE, reason |-> "not_restricted"],
             logs |-> <<>>]
       ELSE IF ~logOk
         THEN [status |-> 500,
               body |-> [error |-> "Access check failed"],
               logs |-> <<>>]
       ELSE [status |-> 200,
             body |-> accessResult,
             logs |-> <<LogRecord(shopDomain, productId, customerId,
                          IF accessResult.hasAccess THEN "allowed"
                          ELSE accessResult.reason)>>]

\* middleware/access-control validateCustomerAccess: sets req.accessResult
validateCustomerAccessMiddleware(shopDomain, productId, customerId, fetch, env, logOk) ==
  LET isRestricted == isProductRestricted(productId, shopDomain, env)
      accessResult == validateCustomerAccess(customerId, fetch, DefaultTag)
  IN IF ~isRestricted
       THEN [status |-> 200,
             body |-> [hasAccess |-> TRUE, reason |-> "not_restricted"],
             logs |-> <<>>]
       ELSE IF ~logOk
         THEN [status |-> 500,
               body |-> [error |-> "Access validation failed"],
               logs |-> <<>>]
       ELSE [status |-> 200,
             body |-> accessResult,
             logs |-> <<LogRecord(shopDomain, productId, customerId,
                          IF accessResult.hasAccess THEN "allowed"
                          ELSE accessResult.reason)>>]

\* one validationResults entry of POST /api/validate-cart
cartItemResult(shopDomain, item, accessResult) ==
  LET isRestricted == isProductRestricted(item.product_id, shopDomain, item.env)
  IN [productId |-> item.product_id,
      isRestricted |-> isRestricted,
      hasAccess |-> (~isRestricted) \/ accessResult.hasAccess,
      reason |-> IF isRestricted THEN accessResult.reason ELSE "not_restricted"]

\* mutant: every restricted item counts as denied, whatever the customer
IsDeniedResult_RestrictedOnly(result) == result.isRestricted

IsDeniedResult(result) == result.isRestricted /\ ~result.hasAccess

\* POST /api/validate-cart with an array of cart items
validateCart(shopDomain, cartItems, customerId, fetch) ==
  LET accessResult == validateCustomerAccess(customerId, fetch, DefaultTag)
      validationResults ==
        [i \in 1..Len(cartItems) |->
           cartItemResult(shopDomain, cartItems[i], accessResult)]
      hasRestrictedItems ==
        \E i \in 1..Len(validationResults) : IsDeniedResult(validationResults[i])
  IN [status |-> 200,
      body |-> [valid |-> ~hasRestrictedItems,
                customerAccess |-> accessResult,
                items |-> validationResults,
                restrictedItems |-> SelectSeq(validationResults, IsDeniedResult)]]

\* POST /api/webhooks/orders/create: the restricted line items and whether
\* the handler reports that the order should be cancelled
ordersCreate(shopDomain, lineItems, customerId, fetch) ==
  LET flags == [i \in 1..Len(lineItems) |->
                  isProductRestricted(lineItems[i].product_id, shopDomain,
                                      lineItems[i].env)]
      restrictedItems == {i \in 1..Len(lineItems) : flags[i]}
      accessResult == validateCustomerAccess(customerId, fetch, DefaultTag)
  IN [status |-> 200,
      restrictedItems |-> restrictedItems,
      shouldCancel |-> restrictedItems # {} /\ ~accessResult.hasAccess]

\* GET /api/customer-status/:customerId
customerStatus(customerId, fetch) ==
  LET accessResult == validateCustomerAccess(customerId, fetch, DefaultTag)
  IN [status |-> 200,
      body |-> [hasAccess |-> accessResult.hasAccess,
                reason |-> accessResult.reason]]

\* PUT /api/admin/settings: the settings object built from the request body
settingsFromBody(body) ==
  [is_enabled |-> IF body.is_enabled # JsNull THEN body.is_enabled ELSE "true",
   butterfly_paid_tag |->
     IF body.butterfly_paid_tag # <<>> THEN body.butterfly_paid_tag
     ELSE DefaultTag,
   education_collections |->
     IF body.education_collections # <<>> THEN body.education_collections
     ELSE DefaultEducation]

(***************************************************************************)
(* routes/auth.js, routes/admin.js and routes/webhooks.js                  *)
(***************************************************************************)
\* GET /api/auth/install: defaultSettings
defaultSettings ==
  [is_enabled |-> "true", butterfly_paid_tag |-> DefaultTag,
   education_collections |-> DefaultEducation]

\* products/create and products/update: whether the product type names one
\* of the shop's education collections
isException(settings, product_type) ==
  LET educationCollections == Split(settings.education_collections, <<>>, <<>>)
  IN /\ product_type # <<>>
     /\ \E i \in 1..Len(educationCollections) :
          Includes(ToLowerCase(product_type),
                   ToLowerCase(educationCollections[i]))

\* POST /api/webhooks/products/create: product_restrictions after it
productsCreate(shopDomain, product) ==
  LET settings == SettingsRows(shopDomain)
  IN IF settings # {}
       THEN setRestriction(shopDomain, product.id,
              ~isException(CHOOSE r \in settings : TRUE, product.product_type),
              JsNull)
       ELSE product_restrictions

\* dbConfig: the knex client, 'pg' when DATABASE_URL is set and 'sqlite3'
\* otherwise
Clients == {"pg", "sqlite3"}

\* the value a client returns for the boolean column is_restricted: pg
\* returns a boolean, sqlite3 the stored integer
booleanColumn(client, b) ==
  IF client = "sqlite3" THEN (IF b THEN 1 ELSE 0) ELSE b

\* column === b for a value read from a boolean column and a boolean: a
\* number is never strictly equal to a boolean
StrictEquals(client, column, b) == client = "pg" /\ column = b

\* POST /api/webhooks/products/update: product_restrictions after it
productsUpdate(client, shopDomain, product) ==
  LET settings == SettingsRows(shopDomain)
      currentRestriction == RestrictionRows(shopDomain, product.id)
  IN IF settings # {} /\ currentRestriction # {}
       THEN LET exception == isException(CHOOSE r \in settings : TRUE,
                                         product.product_type)
                current == CHOOSE r \in currentRestriction : TRUE
            IN IF StrictEquals(client,
                               booleanColumn(client, current.is_restricted),
                               exception)
                 THEN setRestriction(shopDomain, product.id, ~exception,
                                     current.custom_message)
                 ELSE product_restrictions
       ELSE product_restrictions

(***************************************************************************)
(* routes/api.js behind router.use(rateLimit)                              *)
(***************************************************************************)
\* GET /api/check-access: the limiter, then validateShopSession and the
\* handler when the limiter calls next()
apiCheckAccess_HandlerOnReject(map, key, t, shopDomain, productId, customerId, fetch, env) ==
  LET limit == rateLimit(map, key, t)
      out == checkAccess(shopDomain, productId, customerId, fetch, env, TRUE)
  IN IF ~limit.admit
       THEN [requests |-> limit.requests, admit |-> FALSE, handled |-> TRUE,
             res |-> [status |-> 429, error |-> "Too many requests"],
             logs |-> out.logs]
       ELSE [requests |-> limit.requests, admit |-> TRUE, handled |-> TRUE,
             res |-> [status |-> out.status, body |-> out.body],
             logs |-> out.logs]

apiCheckAccess(map, key, t, shopDomain, productId, customerId, fetch, env) ==
  LET limit == rateLimit(map, key, t)
      out == checkAccess(shopDomain, productId, customerId, fetch, env, TRUE)
  IN IF ~limit.admit
       THEN [requests |-> limit.requests, admit |-> FALSE, handled |-> FALSE,
             res |-> [status |-> 429, error |-> "Too many requests"],
             logs |-> <<>>]
       ELSE [requests |-> limit.requests, admit |-> TRUE, handled |-> TRUE,
             res |-> [status |-> out.status, body |-> out.body],
             logs |-> out.logs]

(***************************************************************************)
(* routes/live-shopify-admin.js: customer classification                   *)
(***************************************************************************)
\* GET /customers: accessLevel of one customer
accessLevel(tagsString) ==
  LET tags == TagList(tagsString)
  IN IF ListIncludes(tags, DefaultTag) THEN "butterfly"
     ELSE IF ListIncludes(tags, VerifiedTag) THEN "verified"
     ELSE "public"

\* GET /dashboard: customer counts
dashboardStats(customers) ==
  LET verifiedCustomers ==
        Cardinality({c \in customers :
           CustomerTags[c] # <<>> /\ Includes(CustomerTags[c], VerifiedTag)})
      butterflyPaidCustomers ==
        Cardinality({c \in customers :
           CustomerTags[c] # <<>> /\ Includes(CustomerTags[c], DefaultTag)})
      totalCustomers == Cardinality(customers)
  IN [totalCustomers |-> totalCustomers,
      verifiedCustomers |-> verifiedCustomers,
      butterflyPaidCustomers |-> butterflyPaidCustomers,
      publicCustomers |-> totalCustomers - verifiedCustomers - butterflyPaidCustomers]

(***************************************************************************)
(* routes/standalone-admin.js: live listing access levels                  *)
(***************************************************************************)
IncludesPiece(s, piece) == Includes(s, <<piece>>)

\* mutant: the butterfly rule is tried before the education rule
getProductAccessLevel_ButterflyFirst(product) ==
  LET tags == product.tags
      title == ToLowerCase(product.title)
  IN IF IncludesPiece(tags, "butterfly") \/ IncludesPiece(tags, "flutter")
        \/ IncludesPiece(title, "butterfly") \/ IncludesPiece(title, "flutter")
       THEN "butterfly_paid"
     ELSE IF IncludesPiece(tags, "education") \/ IncludesPiece(tags, "course")
             \/ IncludesPiece(title, "education") \/ IncludesPiece(title, "course")
       THEN "none"
     ELSE "verified"

getProductAccessLevel(product) ==
  LET tags == product.tags
      title == ToLowerCase(product.title)
  IN IF IncludesPiece(tags, "education") \/ IncludesPiece(tags, "course")
        \/ IncludesPiece(title, "education") \/ IncludesPiece(title, "course")
       THEN "none"
     ELSE IF IncludesPiece(tags, "butterfly") \/ IncludesPiece(tags, "flutter")
             \/ IncludesPiece(title, "butterfly") \/ IncludesPiece(title, "flutter")
       THEN "butterfly_paid"
     ELSE "verified"

getCollectionAccessLevel(collection) ==
  LET handle == ToLowerCase(collection.handle)
      title == ToLowerCase(collection.title)
  IN IF IncludesPiece(handle, "education") \/ IncludesPiece(handle, "course")
        \/ IncludesPiece(title, "education")
       THEN "none"
     ELSE IF IncludesPiece(handle, "butterfly") \/ IncludesPiece(handle, "flutter")
             \/ IncludesPiece(title, "butterfly") \/ IncludesPiece(title, "flutter")
       THEN "butterfly_paid"
     ELSE "verified"

(***************************************************************************)
(* Request inputs                                                          *)
(***************************************************************************)
\* the catalog answers used for the lines of a cart or an order
LineEnvs ==
  {[product |-> "throw", collOk |-> TRUE, collections |-> {}, memberOf |-> {}],
   [product |-> "typed", collOk |-> TRUE, collections |-> Collections,
    memberOf |-> {}]}

Lines == [product_id : Products, env : LineEnvs]

Carts == UNION {[1..n -> Lines] : n \in 0..MaxCart}

LevelPieces == {"education", "course", "butterfly", "Flutter", "hair"}

LevelStrings ==
  {<<>>} \cup {<<a>> : a \in LevelPieces}
         \cup {<<a, b>> : a \in LevelPieces, b \in LevelPieces}

(***************************************************************************)
(* Actions: each serves one request atomically                             *)
(***************************************************************************)
Idle == [op |-> "none"]

\* a decision is served on a fresh process or after a settings update
Ready == last.op \in {"none", "admin/settings"}

SettingsBodies ==
  {[is_enabled |-> JsNull, butterfly_paid_tag |-> t,
    education_collections |-> <<>>] : t \in {<<>>, CustomTag}}

\* PUT /api/admin/settings behind validateShopSession and checkAppInstallation
PutSettings ==
  /\ last = Idle
  /\ \E shop \in Shops, body \in SettingsBodies :
       IF SettingsRows(shop) = {}
         THEN /\ last' = [op |-> "admin/settings", shop |-> shop,
                          res |-> [status |-> 404]]
              /\ UNCHANGED app_settings
         ELSE LET settings == settingsFromBody(body)
              IN /\ app_settings' = createOrUpdate(shop, settings)
                 /\ last' = [op |-> "admin/settings", shop |-> shop,
                             res |-> [status |-> 200, settings |-> settings]]
  /\ UNCHANGED <<product_restrictions, collection_exceptions, access_logs>>
  /\ UNCHANGED <<limiterVars, sideVars>>

CustomerStatus ==
  /\ Ready
  /\ \E shop \in Shops, cc \in PathCustomerCases :
       last' = [op |-> "customer-status", shop |-> shop,
                customerId |-> cc.customerId, fetch |-> cc.fetch,
                res |-> customerStatus(cc.customerId, cc.fetch)]
  /\ UNCHANGED <<app_settings, product_restrictions, collection_exceptions,
                 access_logs>>
  /\ UNCHANGED <<limiterVars, sideVars>>

\* validateShopSession: a request without a shop session is answered 401
NoShopSession ==
  /\ Ready
  /\ \E op \in {"check-access", "validate-cart", "customer-status"} :
       last' = [op |-> op, shop |-> JsNull, res |-> [status |-> 401]]
  /\ UNCHANGED <<app_settings, product_restrictions, collection_exceptions,
                 access_logs>>
  /\ UNCHANGED <<limiterVars, sideVars>>

CheckAccess ==
  /\ Ready
  /\ \E shop \in Shops, productId \in Products,
        cc \in PathCustomerCases, env \in CatalogEnvs, logOk \in BOOLEAN :
       LET out == checkAccess(shop, productId, cc.customerId, cc.fetch, env,
                              logOk)
       IN /\ access_logs' = access_logs \o out.logs
          /\ last' = [op |-> "check-access", shop |-> shop,
                      productId |-> productId, customerId |-> cc.customerId,
                      fetch |-> cc.fetch, env |-> env, logOk |-> logOk,
                      res |-> [status |-> out.status, body |-> out.body]]
  /\ UNCHANGED <<app_settings, product_restrictions, collection_exceptions>>
  /\ UNCHANGED <<limiterVars, sideVars>>

AccessMiddleware ==
  /\ Ready
  /\ \E shop \in Shops, productId \in Products,
        cc \in PathCustomerCases, env \in CatalogEnvs, logOk \in BOOLEAN :
       LET out == validateCustomerAccessMiddleware(shop, productId,
                     cc.customerId, cc.fetch, env, logOk)
       IN /\ access_logs' = access_logs \o out.logs
          /\ last' = [op |-> "middleware", shop |-> shop,
                      productId |-> productId, customerId |-> cc.customerId,
                      fetch |-> cc.fetch, env |-> env, logOk |-> logOk,
                      res |-> [status |-> out.status, body |-> out.body]]
  /\ UNCHANGED <<app_settings, product_restrictions, collection_exceptions>>
  /\ UNCHANGED <<limiterVars, sideVars>>

\* shopDomain = req.session?.shop || req.query.shop is missing: 400
AccessMiddlewareNoShop ==
  /\ Ready
  /\ last' = [op |-> "middleware", shop |-> JsNull, res |-> [status |-> 400]]
  /\ UNCHANGED <<app_settings, product_restrictions, collection_exceptions,
                 access_logs>>
  /\ UNCHANGED <<limiterVars, sideVars>>

ValidateCart ==
  /\ Ready
  /\ \E shop \in Shops, cartItems \in Carts, cc \in BodyCustomerCases :
       last' = [op |-> "validate-cart", shop |-> shop, cartItems |-> cartItems,
                customerId |-> cc.customerId, fetch |-> cc.fetch,
                res |-> validateCart(shop, cartItems, cc.customerId, cc.fetch)]
  /\ UNCHANGED <<app_settings, product_restrictions, collection_exceptions,
                 access_logs>>
  /\ UNCHANGED <<limiterVars, sideVars>>

\* !cartItems || !Array.isArray(cartItems): 400
ValidateCartBadRequest ==
  /\ Ready
  /\ \E shop \in Shops :
       last' = [op |-> "validate-cart", shop |-> shop, cartItems |-> JsNull,
                res |-> [status |-> 400]]
  /\ UNCHANGED <<app_settings, product_restrictions, collection_exceptions,
                 access_logs>>
  /\ UNCHANGED <<limiterVars, sideVars>>

OrdersCreate ==
  /\ Ready
  /\ \E shop \in Shops, lineItems \in Carts, cc \in BodyCustomerCases :
       last' = [op |-> "orders/create", shop |-> shop, cartItems |-> lineItems,
                customerId |-> cc.customerId, fetch |-> cc.fetch,
                res |-> ordersCreate(shop, lineItems, cc.customerId, cc.fetch)]
  /\ UNCHANGED <<app_settings, product_restrictions, collection_exceptions,
                 access_logs>>
  /\ UNCHANGED <<limiterVars, sideVars>>

\* !order || !shopDomain: 400
OrdersCreateBadRequest ==
  /\ Ready
  /\ last' = [op |-> "orders/create", shop |-> JsNull, res |-> [status |-> 400]]
  /\ UNCHANGED <<app_settings, product_restrictions, collection_exceptions,
                 access_logs>>
  /\ UNCHANGED <<limiterVars, sideVars>>

LiveCustomers ==
  /\ Ready
  /\ \/ \E customers \in SUBSET CustIds :
          last' = [op |-> "customers", customers |-> customers,
                   res |-> [status |-> 200,
                            accessLevel |-> [c \in customers |->
                                               accessLevel(CustomerTags[c])]]]
     \/ last' = [op |-> "customers", customers |-> {}, res |-> [status |-> 500]]
  /\ UNCHANGED <<app_settings, product_restrictions, collection_exceptions,
                 access_logs>>
  /\ UNCHANGED <<limiterVars, sideVars>>

LiveDashboard ==
  /\ Ready
  /\ \/ \E customers \in SUBSET CustIds :
          last' = [op |-> "dashboard", customers |-> customers,
                   res |-> [status |-> 200, stats |-> dashboardStats(customers)]]
     \/ last' = [op |-> "dashboard", customers |-> {}, res |-> [status |-> 500]]
  /\ UNCHANGED <<app_settings, product_restrictions, collection_exceptions,
                 access_logs>>
  /\ UNCHANGED <<limiterVars, sideVars>>

AdminProductsLevel ==
  /\ last = Idle
  /\ \E tags \in LevelStrings, title \in LevelStrings :
       LET product == [tags |-> tags, title |-> title]
       IN last' = [op |-> "admin/products", product |-> product,
                   res |-> [status |-> 200,
                            access_level |-> getProductAccessLevel(product)]]
  /\ UNCHANGED <<app_settings, product_restrictions, collection_exceptions,
                 access_logs>>
  /\ UNCHANGED <<limiterVars, sideVars>>

AdminCollectionsLevel ==
  /\ last = Idle
  /\ \E handle \in LevelStrings, title \in LevelStrings :
       LET collection == [handle |-> handle, title |-> title]
       IN last' = [op |-> "admin/collections", collection |-> collection,
                   res |-> [status |-> 200,
                            access_level |-> getCollectionAccessLevel(collection)]]
  /\ UNCHANGED <<app_settings, product_restrictions, collection_exceptions,
                 access_logs>>
  /\ UNCHANGED <<limiterVars, sideVars>>

(***************************************************************************)
(* Actions of the rate-limited /api router                                 *)
(***************************************************************************)
\* the catalog answer of the rate-limited requests: the product is found
\* and has no product type
RateEnv == CHOOSE env \in CatalogEnvs : env.product = "notype"

\* the caller of the rate-limited requests: a customer without the tag
RateCustomer == "105"

\* time passes between two requests
Tick ==
  /\ \E t \in Instants : t > now /\ now' = t
  /\ UNCHANGED <<app_settings, product_restrictions, collection_exceptions,
                 access_logs, last, requests, admitted, lastCall>>
  /\ UNCHANGED sideVars

ApiCheckAccess ==
  /\ \E key \in Keys, productId \in {1} :
       LET out == apiCheckAccess(requests, key, now, "s1", productId,
                                 RateCustomer, CustomerOk(RateCustomer), RateEnv)
       IN /\ requests' = out.requests
          /\ admitted' = IF out.admit
                           THEN [admitted EXCEPT ![key] = Append(@, now)]
                           ELSE admitted
          /\ lastCall' = [lastCall EXCEPT ![key] = now]
          /\ access_logs' = access_logs \o out.logs
          /\ last' = [op |-> "api/check-access", key |-> key, at |-> now,
                      shop |-> "s1", productId |-> productId,
                      admit |-> out.admit, handled |-> out.handled,
                      res |-> out.res]
  /\ UNCHANGED <<app_settings, product_restrictions, collection_exceptions, now>>
  /\ UNCHANGED sideVars

(***************************************************************************)
(* Actions of the management routes and webhooks                           *)
(***************************************************************************)
MaxLogs == 1

\* the product and the collection the management requests are about
AdminProducts == {1}
AdminCollections == {10}

\* req.body.customMessage
CustomMessages == {JsNull, "m1"}

\* product.product_type in a product webhook
ProductTypes == {<<>>, <<"Hair Color">>, <<"Online ", "Courses">>}

\* GET /api/auth/install
Install_ResetSettings ==
  /\ \E shop \in Shops :
       LET existingSettings == SettingsRows(shop)
       IN /\ app_settings' = createOrUpdate(shop, defaultSettings)
          /\ last' = [op |-> "auth/install", shop |-> shop,
                      res |-> IF existingSettings # {}
                                THEN [status |-> 200, success |-> TRUE,
                                      message |-> "App already installed",
                                      settings |->
                                        CHOOSE r \in existingSettings : TRUE]
                                ELSE [status |-> 200, success |-> TRUE,
                                      message |-> "App installed successfully",
                                      settings |-> defaultSettings]]
  /\ UNCHANGED <<product_restrictions, collection_exceptions, access_logs>>
  /\ UNCHANGED <<limiterVars, sideVars>>

Install ==
  /\ \E shop \in Shops :
       LET existingSettings == SettingsRows(shop)
       IN IF existingSettings # {}
            THEN /\ UNCHANGED app_settings
                 /\ last' = [op |-> "auth/install", shop |-> shop,
                             res |-> [status |-> 200, success |-> TRUE,
                                      message |-> "App already installed",
                                      settings |->
                                        CHOOSE r \in existingSettings : TRUE]]
            ELSE /\ app_settings' = createOrUpdate(shop, defaultSettings)
                 /\ last' = [op |-> "auth/install", shop |-> shop,
                             res |-> [status |-> 200, success |-> TRUE,
                                      message |-> "App installed successfully",
                                      settings |-> defaultSettings]]
  /\ UNCHANGED <<product_restrictions, collection_exceptions, access_logs>>
  /\ UNCHANGED <<limiterVars, sideVars>>

\* GET /api/auth/status
Status ==
  /\ \E shop \in Shops :
       LET settings == SettingsRows(shop)
       IN last' = [op |-> "auth/status", shop |-> shop,
                   res |-> [status |-> 200, installed |-> settings # {},
                            shopDomain |-> shop,
                            settings |-> IF settings # {}
                                           THEN CHOOSE r \in settings : TRUE
                                           ELSE JsNull]]
  /\ UNCHANGED <<app_settings, product_restrictions, collection_exceptions,
                 access_logs>>
  /\ UNCHANGED <<limiterVars, sideVars>>

\* GET /api/auth/uninstall
Uninstall_DropLogs ==
  /\ \E shop \in Shops :
       /\ app_settings' = delShop(app_settings, shop)
       /\ product_restrictions' = delShop(product_restrictions, shop)
       /\ collection_exceptions' = delShop(collection_exceptions, shop)
       /\ access_logs' = SelectSeq(access_logs,
                                   LAMBDA row : row.shop_domain # shop)
       /\ last' = [op |-> "auth/uninstall", shop |-> shop,
                   res |-> [status |-> 200]]
  /\ UNCHANGED <<limiterVars, sideVars>>

Uninstall ==
  /\ \E shop \in Shops :
       /\ app_settings' = delShop(app_settings, shop)
       /\ product_restrictions' = delShop(product_restrictions, shop)
       /\ collection_exceptions' = delShop(collection_exceptions, shop)
       /\ last' = [op |-> "auth/uninstall", shop |-> shop,
                   res |-> [status |-> 200]]
  /\ UNCHANGED access_logs
  /\ UNCHANGED <<limiterVars, sideVars>>

\* POST /api/webhooks/app/uninstalled
AppUninstalled_EveryShop ==
  /\ \E shop \in Shops :
       /\ app_settings' = {}
       /\ product_restrictions' = {}
       /\ collection_exceptions' = {}
       /\ last' = [op |-> "webhooks/app/uninstalled", shop |-> shop,
                   res |-> [status |-> 200]]
  /\ UNCHANGED access_logs
  /\ UNCHANGED <<limiterVars, sideVars>>

AppUninstalled ==
  /\ \E shop \in Shops :
       /\ app_settings' = delShop(app_settings, shop)
       /\ product_restrictions' = delShop(product_restrictions, shop)
       /\ collection_exceptions' = delShop(collection_exceptions, shop)
       /\ last' = [op |-> "webhooks/app/uninstalled", shop |-> shop,
                   res |-> [status |-> 200]]
  /\ UNCHANGED access_logs
  /\ UNCHANGED <<limiterVars, sideVars>>

\* PUT /api/admin/settings, at any time
AdminSettings ==
  /\ \E shop \in Shops, body \in SettingsBodies :
       IF SettingsRows(shop) = {}
         THEN /\ last' = [op |-> "admin/settings", shop |-> shop,
                          res |-> [status |-> 404]]
              /\ UNCHANGED app_settings
         ELSE LET settings == settingsFromBody(body)
              IN /\ app_settings' = createOrUpdate(shop, settings)
                 /\ last' = [op |-> "admin/settings", shop |-> shop,
                             res |-> [status |-> 200, settings |-> settings]]
  /\ UNCHANGED <<product_restrictions, collection_exceptions, access_logs>>
  /\ UNCHANGED <<limiterVars, sideVars>>

\* PUT /api/admin/products/:productId/restriction behind validateShopSession
\* and checkAppInstallation; found: getProduct returned the product
AdminRestriction ==
  /\ \E shop \in Shops, productId \in AdminProducts, found \in BOOLEAN,
        restricted \in BOOLEAN, customMessage \in CustomMessages :
       IF SettingsRows(shop) = {} \/ ~found
         THEN /\ last' = [op |-> "admin/restriction", shop |-> shop,
                          productId |-> productId, res |-> [status |-> 404]]
              /\ UNCHANGED product_restrictions
         ELSE /\ product_restrictions' =
                   setRestriction(shop, productId, restricted, customMessage)
              /\ last' = [op |-> "admin/restriction", shop |-> shop,
                          productId |-> productId,
                          isRestricted |-> restricted,
                          customMessage |-> customMessage,
                          updated |-> RestrictionRows(shop, productId) # {},
                          res |-> [status |-> 200]]
  /\ UNCHANGED <<app_settings, collection_exceptions, access_logs>>
  /\ UNCHANGED <<limiterVars, sideVars>>

\* PUT /api/admin/collections/:collectionId/exception
AdminException ==
  /\ \E shop \in Shops, collectionId \in AdminCollections, found \in BOOLEAN,
        exception \in BOOLEAN :
       IF SettingsRows(shop) = {} \/ ~found
         THEN /\ last' = [op |-> "admin/exception", shop |-> shop,
                          collectionId |-> collectionId,
                          res |-> [status |-> 404]]
              /\ UNCHANGED collection_exceptions
         ELSE /\ collection_exceptions' =
                   setException(shop, collectionId, exception)
              /\ last' = [op |-> "admin/exception", shop |-> shop,
                          collectionId |-> collectionId,
                          isException |-> exception,
                          res |-> [status |-> 200]]
  /\ UNCHANGED <<app_settings, product_restrictions, access_logs>>
  /\ UNCHANGED <<limiterVars, sideVars>>

\* POST /api/webhooks/products/create
ProductsCreate ==
  /\ \E shop \in Shops, id \in AdminProducts, product_type \in ProductTypes :
       /\ product_restrictions' =
            productsCreate(shop, [id |-> id, product_type |-> product_type])
       /\ last' = [op |-> "webhooks/products/create", shop |-> shop,
                   productId |-> id, product_type |-> product_type,
                   res |-> [status |-> 200]]
  /\ UNCHANGED <<app_settings, collection_exceptions, access_logs>>
  /\ UNCHANGED <<limiterVars, sideVars>>

\* POST /api/webhooks/products/update
ProductsUpdate ==
  /\ \E client \in Clients, shop \in Shops, id \in AdminProducts,
        product_type \in ProductTypes :
       /\ product_restrictions' =
            productsUpdate(client, shop,
                           [id |-> id, product_type |-> product_type])
       /\ last' = [op |-> "webhooks/products/update", client |-> client,
                   shop |-> shop, productId |-> id,
                   product_type |-> product_type, res |-> [status |-> 200]]
  /\ UNCHANGED <<app_settings, collection_exceptions, access_logs>>
  /\ UNCHANGED <<limiterVars, sideVars>>

\* POST /api/webhooks/products/delete
ProductsDelete ==
  /\ \E shop \in Shops, id \in AdminProducts :
       /\ product_restrictions' =
            product_restrictions \ RestrictionRows(shop, id)
       /\ last' = [op |-> "webhooks/products/delete", shop |-> shop,
                   productId |-> id, res |-> [status |-> 200]]
  /\ UNCHANGED <<app_settings, collection_exceptions, access_logs>>
  /\ UNCHANGED <<limiterVars, sideVars>>

\* GET /api/check-access between management requests, while the log is short
CheckAccessLogged ==
  /\ Len(access_logs) < MaxLogs
  /\ \E shop \in Shops, productId \in AdminProducts :
       LET out == checkAccess(shop, productId, RateCustomer,
                              CustomerOk(RateCustomer), RateEnv, TRUE)
       IN /\ access_logs' = access_logs \o out.logs
          /\ last' = [op |-> "check-access", shop |-> shop,
                      productId |-> productId,
                      res |-> [status |-> out.status, body |-> out.body]]
  /\ UNCHANGED <<app_settings, product_restrictions, collection_exceptions>>
  /\ UNCHANGED <<limiterVars, sideVars>>

(***************************************************************************)
(* Specifications                                                          *)
(***************************************************************************)
\* no checkout is open, no setRestriction call is in progress and the
\* settings file has not been written
NoCheckout == [mounted |-> FALSE, checks |-> <<>>, cleared |-> {}]

NoFile == [exists |-> FALSE, saved |-> <<>>]

InitSide ==
  /\ checkout = NoCheckout
  /\ upserts = <<>>
  /\ settings_file = NoFile

\* createRateLimit was just called: no request has arrived yet
InitLimiter ==
  /\ requests = EmptyMap
  /\ now = 0
  /\ admitted = [ip \in Keys |-> <<>>]
  /\ lastCall = [ip \in Keys |-> -1]

(***************************************************************************)
(* routes/live-shopify-admin.js: the settings file                         *)
(***************************************************************************)
\* the fields the access-control form and the messages form send
AccessControlFields == {"education_collections", "verified_tag"}

MessageFields == {"pro_account_title", "login_url"}

SavedValues == {"a", "b"}

\* req.body of the two forms
AccessControlBodies == [AccessControlFields -> SavedValues]

MessageBodies == [MessageFields -> SavedValues]

\* { ...a, ...b }
Spread(a, b) ==
  [k \in DOMAIN a \cup DOMAIN b |-> IF k \in DOMAIN b THEN b[k] ELSE a[k]]

\* JSON.parse(fs.readFileSync(settingsPath)) when the file exists
savedSettings == IF settings_file.exists THEN settings_file.fields ELSE <<>>

\* new Date().toISOString(), kept as the instant it renders
Timestamp == [updated_at |-> now]

\* GET /settings: the defaults
themeDefaults ==
  [education_collections |-> "courses,in-person-education-1,education",
   butterfly_collections |-> "butterfly,flutter-luxe",
   verified_tag |-> "verified",
   butterfly_paid_tag |-> "butterfly_paid"]

\* GET /messages: the defaults (without the subtitles and the locate text)
messageDefaults ==
  [pro_account_title |-> "PRO ACCOUNT REQUIRED",
   pro_account_create_text |-> "CREATE FREE PRO ACCOUNT",
   pro_account_login_text |-> "LOGIN",
   create_account_url |-> "/account/register",
   login_url |-> "/account/login",
   locate_stylists_url |-> "/pages/find-stylists",
   butterfly_title |-> "BUTTERFLY CERTIFICATION REQUIRED",
   butterfly_button_text |-> "EXPLORE CERTIFICATIONS OPTIONS",
   certification_url |-> "https://maliaextensions.com/pages/certification"]

\* PUT /access-control
PutAccessControl ==
  /\ \E settings \in AccessControlBodies :
       LET settingsWithTimestamp == Spread(settings, Timestamp)
       IN /\ settings_file' = [exists |-> TRUE,
                               fields |-> settingsWithTimestamp,
                               saved |-> Spread(settings_file.saved, settings)]
          /\ last' = [op |-> "live/put-access-control", shop |-> "s1",
                      res |-> [status |-> 200,
                               settings |-> settingsWithTimestamp]]
  /\ UNCHANGED <<app_settings, product_restrictions, collection_exceptions,
                 access_logs, checkout, upserts>>
  /\ UNCHANGED limiterVars

\* PUT /messages
PutMessages ==
  /\ \E messages \in MessageBodies :
       LET existingSettings == savedSettings
           updatedSettings ==
             Spread(Spread(existingSettings, messages), Timestamp)
       IN /\ settings_file' = [exists |-> TRUE, fields |-> updatedSettings,
                               saved |-> Spread(settings_file.saved, messages)]
          /\ last' = [op |-> "live/put-messages", shop |-> "s1",
                      res |-> [status |-> 200, settings |-> updatedSettings]]
  /\ UNCHANGED <<app_settings, product_restrictions, collection_exceptions,
                 access_logs, checkout, upserts>>
  /\ UNCHANGED limiterVars

\* GET /settings
GetSettings ==
  /\ last' = [op |-> "live/get-settings", shop |-> "s1",
              res |-> [status |-> 200,
                       settings |-> Spread(themeDefaults, savedSettings)]]
  /\ UNCHANGED <<app_settings, product_restrictions, collection_exceptions,
                 access_logs>>
  /\ UNCHANGED <<limiterVars, sideVars>>

\* GET /messages
GetMessages ==
  /\ last' = [op |-> "live/get-messages", shop |-> "s1",
              res |-> [status |-> 200,
                       settings |-> Spread(messageDefaults, savedSettings)]]
  /\ UNCHANGED <<app_settings, product_restrictions, collection_exceptions,
                 access_logs>>
  /\ UNCHANGED <<limiterVars, sideVars>>

(***************************************************************************)
(* checkout_extension/src/Checkout.jsx                                     *)
(***************************************************************************)
\* the validate-cart requests one checkout sends
MaxChecks == 2

\* line.id and line.merchandise.id of the cart lines, and the product of
\* each variant
LineIds == {"l1", "l2"}

Variants == {"v1", "v2"}

ProductOf == [v \in Variants |-> IF v = "v1" THEN 1 ELSE 2]

\* useCartLines(): the lines in the order of the cart; two lines can carry
\* the same variant
CheckoutCarts ==
  {<<>>,
   <<[id |-> "l1", variant |-> "v1"]>>,
   <<[id |-> "l2", variant |-> "v2"]>>,
   <<[id |-> "l1", variant |-> "v1"], [id |-> "l2", variant |-> "v1"]>>,
   <<[id |-> "l1", variant |-> "v1"], [id |-> "l2", variant |-> "v2"]>>}

\* customer?.id || null: a guest, or a customer with the tag
CheckoutCustomers == {JsNull, "101"}

\* how a validate-cart request ends: a 200 body, an error body, or a
\* rejected fetch or response.json()
Outcomes == {"ok", "error", "fail"}

\* cartLines.map(line => ({product_id, variant_id, quantity})), with the
\* catalog answers the server gets while it resolves each item
cartItemsOf(cartLines, envs) ==
  [k \in 1..Len(cartLines) |->
     [product_id |-> ProductOf[cartLines[k].variant],
      variant_id |-> cartLines[k].variant, env |-> envs[k]]]

\* POST /api/validate-cart as the extension reads it: items and
\* restrictedItems with the variantId of each entry
validateCartResponse(shopDomain, cartItems, customerId) ==
  LET res == validateCart(shopDomain, cartItems, customerId,
                          IF customerId = JsNull THEN CustomerThrow
                          ELSE CustomerOk(customerId))
      items == [k \in 1..Len(cartItems) |->
                  [variantId |-> cartItems[k].variant_id,
                   productId |-> res.body.items[k].productId,
                   isRestricted |-> res.body.items[k].isRestricted,
                   hasAccess |-> res.body.items[k].hasAccess]]
  IN [items |-> items,
      restrictedItems |->
        SelectSeq(items, LAMBDA result :
                           result.isRestricted /\ ~result.hasAccess)]

\* the removeCartLine changes: the ids of the lines whose merchandise id is
\* among the variantIds of restrictedItems
removeChanges(cartLines, restrictedItems) ==
  LET restrictedVariantIds ==
        {restrictedItems[k].variantId : k \in 1..Len(restrictedItems)}
  IN {cartLines[k].id :
        k \in {j \in 1..Len(cartLines) :
                 cartLines[j].variant \in restrictedVariantIds}}

\* checkCartForRestrictedItems up to its first await: the request in flight
\* with the cartLines and customer of the render that started it
StartedCheck(cartLines, customer) ==
  [cartLines |-> cartLines, customer |-> customer, pc |-> "fetch",
   outcome |-> "none", items |-> <<>>, restrictedItems |-> <<>>,
   changes |-> {}]

\* the extension is rendered for the first time and its effect runs
Mount ==
  /\ ~checkout.mounted
  /\ \E cartLines \in CheckoutCarts, customer \in CheckoutCustomers :
       checkout' = [mounted |-> TRUE, cartLines |-> cartLines,
                    customer |-> customer, restrictedItems |-> <<>>,
                    isChecking |-> TRUE, hasRestrictedItems |-> FALSE,
                    checks |-> <<StartedCheck(cartLines, customer)>>,
                    cleared |-> {}]
  /\ last' = [op |-> "checkout/mount", shop |-> "s1"]
  /\ UNCHANGED <<app_settings, product_restrictions, collection_exceptions,
                 access_logs, upserts, settings_file>>
  /\ UNCHANGED limiterVars

\* the buyer changes the cart or logs in: the effect runs again
CartChanges ==
  /\ checkout.mounted
  /\ Len(checkout.checks) < MaxChecks
  /\ \E cartLines \in CheckoutCarts, customer \in CheckoutCustomers :
       /\ <<cartLines, customer>> # <<checkout.cartLines, checkout.customer>>
       /\ checkout' = [checkout EXCEPT
            !.cartLines = cartLines, !.customer = customer,
            !.isChecking = TRUE,
            !.checks = Append(@, StartedCheck(cartLines, customer))]
  /\ last' = [op |-> "checkout/cart-changes", shop |-> "s1"]
  /\ UNCHANGED <<app_settings, product_restrictions, collection_exceptions,
                 access_logs, upserts, settings_file>>
  /\ UNCHANGED limiterVars

\* the request of a check ends and the rest of
\* checkCartForRestrictedItems runs, up to applyCartLinesChange if it is
\* called
Respond ==
  /\ checkout.mounted
  /\ \E i \in 1..Len(checkout.checks), outcome \in Outcomes :
       \E envs \in [1..Len(checkout.checks[i].cartLines) -> LineEnvs] :
         LET check == checkout.checks[i]
             data == validateCartResponse("s1",
                       cartItemsOf(check.cartLines, envs), check.customer)
             restrictedItems ==
               IF outcome = "ok" THEN data.restrictedItems ELSE <<>>
             changes == removeChanges(check.cartLines, restrictedItems)
             answered == [check EXCEPT
                            !.outcome = outcome,
                            !.items = IF outcome = "ok" THEN data.items
                                      ELSE <<>>,
                            !.restrictedItems = restrictedItems]
         IN /\ check.pc = "fetch"
            /\ checkout' =
                 IF outcome = "fail"
                   THEN [checkout EXCEPT
                           !.isChecking = FALSE,
                           !.checks[i] = [answered EXCEPT !.pc = "done"]]
                 ELSE IF Len(restrictedItems) > 0
                   THEN IF changes # {}
                          THEN [checkout EXCEPT
                                  !.restrictedItems = restrictedItems,
                                  !.hasRestrictedItems = TRUE,
                                  !.checks[i] = [answered EXCEPT
                                                   !.changes = changes,
                                                   !.pc = "apply"]]
                          ELSE [checkout EXCEPT
                                  !.restrictedItems = restrictedItems,
                                  !.hasRestrictedItems = TRUE,
                                  !.isChecking = FALSE,
                                  !.checks[i] = [answered EXCEPT !.pc = "done"]]
                 ELSE [checkout EXCEPT
                         !.restrictedItems = <<>>,
                         !.hasRestrictedItems = FALSE,
                         !.isChecking = FALSE,
                         !.checks[i] = [answered EXCEPT !.pc = "done"],
                         !.cleared =
                           IF outcome = "ok"
                             THEN @ \cup {<<check.cartLines, check.customer>>}
                             ELSE @]
            /\ last' = [op |-> "checkout/respond", shop |-> "s1",
                        check |-> i, outcome |-> outcome]
  /\ UNCHANGED <<app_settings, product_restrictions, collection_exceptions,
                 access_logs, upserts, settings_file>>
  /\ UNCHANGED limiterVars

\* applyCartLinesChange resolves: the checkout has removed the lines, the
\* finally block runs, and the effect runs again for the changed cart
Applied ==
  /\ checkout.mounted
  /\ \E i \in 1..Len(checkout.checks) :
       LET check == checkout.checks[i]
           cartLines == SelectSeq(checkout.cartLines,
                                  LAMBDA line : line.id \notin check.changes)
       IN /\ check.pc = "apply"
          /\ cartLines # checkout.cartLines
               => Len(checkout.checks) < MaxChecks
          /\ checkout' =
               IF cartLines = checkout.cartLines
                 THEN [checkout EXCEPT !.isChecking = FALSE,
                                       !.checks[i].pc = "done"]
                 ELSE [checkout EXCEPT
                         !.cartLines = cartLines,
                         !.isChecking = TRUE,
                         !.checks =
                           Append([@ EXCEPT ![i].pc = "done"],
                                  StartedCheck(cartLines, checkout.customer))]
          /\ last' = [op |-> "checkout/applied", shop |-> "s1", check |-> i]
  /\ UNCHANGED <<app_settings, product_restrictions, collection_exceptions,
                 access_logs, upserts, settings_file>>
  /\ UNCHANGED limiterVars

(***************************************************************************)
(* lib/database.js: setRestriction calls in progress                       *)
(***************************************************************************)
\* the length of the list given to bulkSetRestrictions
MaxUpserts == 2

\* the restrictions of a list, all for shop s1
UpsertRestrictions ==
  [product_id : Products, is_restricted : BOOLEAN,
   custom_message : CustomMessages]

UpsertLists == UNION {[1..n -> UpsertRestrictions] : n \in 1..MaxUpserts}

\* the row a call inserts
UpsertRow(call) ==
  [shop_domain |-> "s1", product_id |-> call.product_id,
   is_restricted |-> call.is_restricted,
   custom_message |-> call.custom_message]

\* bulkSetRestrictions: restrictions.map starts one setRestriction call per
\* element, each up to its first await
BulkSetRestrictions ==
  /\ upserts = <<>>
  /\ \E restrictions \in UpsertLists :
       /\ upserts' = [i \in 1..Len(restrictions) |->
                        [call |-> restrictions[i], pc |-> "getByProduct",
                         existing |-> FALSE]]
       /\ last' = [op |-> "bulkSetRestrictions", shop |-> "s1",
                   restrictions |-> restrictions]
  /\ UNCHANGED <<app_settings, product_restrictions, collection_exceptions,
                 access_logs, checkout, settings_file>>
  /\ UNCHANGED limiterVars

\* setRestriction: const existing = await this.getByProduct(...)
GetByProduct ==
  /\ \E i \in 1..Len(upserts) :
       /\ upserts[i].pc = "getByProduct"
       /\ upserts' = [upserts EXCEPT
            ![i].existing = RestrictionRows("s1", upserts[i].call.product_id) # {},
            ![i].pc = "write"]
  /\ UNCHANGED <<app_settings, product_restrictions, collection_exceptions,
                 access_logs, last, checkout, settings_file>>
  /\ UNCHANGED limiterVars

\* setRestriction: the update or the insert; the insert of a second row for
\* a (shop_domain, product_id) fails on the table's unique constraint
UpdateOrInsert ==
  /\ \E i \in 1..Len(upserts) :
       LET call == upserts[i].call
           rows == RestrictionRows("s1", call.product_id)
       IN /\ upserts[i].pc = "write"
          /\ IF upserts[i].existing
               THEN /\ product_restrictions' =
                         (product_restrictions \ rows)
                           \cup {UpsertRow(call) : r \in rows}
                    /\ upserts' = [upserts EXCEPT ![i].pc = "done"]
               ELSE IF rows # {}
                 THEN /\ UNCHANGED product_restrictions
                      /\ upserts' = [upserts EXCEPT ![i].pc = "error"]
                 ELSE /\ product_restrictions' =
                           product_restrictions \cup {UpsertRow(call)}
                      /\ upserts' = [upserts EXCEPT ![i].pc = "done"]
  /\ UNCHANGED <<app_settings, collection_exceptions, access_logs, last,
                 checkout, settings_file>>
  /\ UNCHANGED limiterVars

(***************************************************************************)
(* Analytics                                                               *)
(***************************************************************************)
\* the log rows written in the runs that study the analytics
MaxAnalyticsLogs == 2

\* the values Date.now() takes, in milliseconds, on the scale of days
DayInstants == {0, DayMs, DayMs + 1, 7 * DayMs + 1}

\* access_type of the rows, as in the repository's database test
AccessTypes == {"allowed", "blocked_no_tag"}

\* parseInt(req.query.days): 0 stands for an absent or non-numeric value
\* (NaN) and for 0, which all select the default
DaysQueries == {0, 1, 7}

\* days pass between two requests
TickDay ==
  /\ \E t \in DayInstants : t > now /\ now' = t
  /\ UNCHANGED <<app_settings, product_restrictions, collection_exceptions,
                 access_logs, last, requests, admitted, lastCall>>
  /\ UNCHANGED sideVars

\* AccessLogs.log
LogAccess ==
  /\ Len(access_logs) < MaxAnalyticsLogs
  /\ \E shop \in Shops, accessType \in AccessTypes :
       /\ access_logs' =
            Append(access_logs, LogRecord(shop, 1, "105", accessType))
       /\ last' = [op |-> "log", shop |-> shop]
  /\ UNCHANGED <<app_settings, product_restrictions, collection_exceptions>>
  /\ UNCHANGED <<limiterVars, sideVars>>

\* GET /api/analytics behind validateShopSession
GetAnalytics ==
  /\ \E client \in Clients, shop \in Shops, query \in DaysQueries :
       LET days == IF query = 0 THEN 30 ELSE query
           analytics == getAnalytics(shop, days)
       IN last' = [op |-> "api/analytics", shop |-> shop, days |-> days,
                   at |-> now, client |-> client,
                   res |-> [status |-> 200, shopDomain |-> shop,
                            analytics |->
                              {[access_type |-> a.access_type,
                                count |-> countColumn(client, a.count)] :
                                 a \in analytics}]]
  /\ UNCHANGED <<app_settings, product_restrictions, collection_exceptions,
                 access_logs>>
  /\ UNCHANGED <<limiterVars, sideVars>>

(***************************************************************************)
(* Product listings                                                        *)
(***************************************************************************)
\* the products getProducts answers, in order
ListedProducts == {<<>>, <<1>>, <<2>>, <<1, 2>>, <<2, 1>>}

\* the catalog answers isProductRestricted can read for a listed product
ListingEnvs ==
  {env \in CatalogEnvs :
     /\ env.memberOf = {}
     /\ env.product \in {"throw", "notype", "typed"}
     /\ env.collections \in {{}, Collections}}

RECURSIVE SumOver(_, _)
SumOver(f, S) ==
  IF S = {} THEN 0
  ELSE LET x == CHOOSE y \in S : TRUE IN f[x] + SumOver(f, S \ {x})

\* GET /api/products behind validateShopSession: Promise.all over one
\* isProductRestricted call per listed product
ApiProducts ==
  /\ Ready
  /\ \E shop \in Shops, products \in ListedProducts,
        envs \in [Products -> ListingEnvs] :
       LET ids == {products[i] : i \in 1..Len(products)}
           fetches == [id \in ids |-> upstreamFetches(id, shop, envs[id])]
       IN last' = [op |-> "api/products", shop |-> shop,
                   products |-> products, envs |-> envs,
                   isRestricted |->
                     [id \in ids |-> isProductRestricted(id, shop, envs[id])],
                   productFetches |-> [id \in ids |-> fetches[id].product],
                   collectionFetches |->
                     SumOver([id \in ids |-> fetches[id].collections], ids),
                   res |-> [status |-> 200]]
  /\ UNCHANGED <<app_settings, product_restrictions, collection_exceptions,
                 access_logs>>
  /\ UNCHANGED <<limiterVars, sideVars>>

\* GET /api/admin/products: the listing with its filter; envs are the catalog
\* answers a decision for the listed products would read at this moment
AdminProductsListing ==
  /\ Ready
  /\ \E shop \in Shops, products \in ListedProducts,
        filter \in {"all", "restricted", "unrestricted"},
        envs \in [Products -> ListingEnvs] :
       LET ids == {products[i] : i \in 1..Len(products)}
           productsWithStatus == [id \in ids |-> adminProductStatus(id, shop)]
           filteredProducts ==
             SelectSeq(products, LAMBDA id :
               \/ filter = "all"
               \/ filter = "restricted" /\ productsWithStatus[id].isRestricted
               \/ filter = "unrestricted"
                    /\ ~productsWithStatus[id].isRestricted)
           shown == {filteredProducts[i] : i \in 1..Len(filteredProducts)}
       IN last' = [op |-> "admin/products", shop |-> shop,
                   products |-> filteredProducts, envs |-> envs,
                   isRestricted |->
                     [id \in shown |-> productsWithStatus[id].isRestricted],
                   customMessage |->
                     [id \in shown |-> productsWithStatus[id].customMessage],
                   res |-> [status |-> 200]]
  /\ UNCHANGED <<app_settings, product_restrictions, collection_exceptions,
                 access_logs>>
  /\ UNCHANGED <<limiterVars, sideVars>>

InitRestrictions ==
  {{}} \cup {{[shop_domain |-> s, product_id |-> p, is_restricted |-> b,
               custom_message |-> "<null>"]} :
              s \in Shops, p \in Products, b \in BOOLEAN}

InitExceptions ==
  {{}} \cup {{[shop_domain |-> s, collection_id |-> c, is_exception |-> b]} :
              s \in Shops, c \in Collections, b \in BOOLEAN}

\* shop s1 is installed, shop s2 is not
InitSettings ==
  {{SettingsRow("s1", [is_enabled |-> "true", butterfly_paid_tag |-> t,
                       education_collections |-> DefaultEducation])} :
     t \in {DefaultTag, CustomTag}}

\* The decision handlers, each from any of the table contents the
\* management routes can have produced.
Init ==
  /\ app_settings \in InitSettings
  /\ product_restrictions \in InitRestrictions
  /\ collection_exceptions \in InitExceptions
  /\ access_logs = <<>>
  /\ last = Idle
  /\ InitLimiter
  /\ InitSide

Next ==
  \/ PutSettings
  \/ NoShopSession
  \/ CustomerStatus
  \/ CheckAccess
  \/ AccessMiddleware
  \/ AccessMiddlewareNoShop
  \/ ValidateCart
  \/ ValidateCartBadRequest
  \/ OrdersCreate
  \/ OrdersCreateBadRequest
  \/ LiveCustomers
  \/ LiveDashboard

Spec == Init /\ [][Next]_vars

\* The live listing handlers, which read no table: the state after
\* setupDatabase, all tables empty.
InitLevels ==
  /\ app_settings = {}
  /\ product_restrictions = {}
  /\ collection_exceptions = {}
  /\ access_logs = <<>>
  /\ last = Idle
  /\ InitLimiter
  /\ InitSide

NextLevels ==
  \/ AdminProductsLevel
  \/ AdminCollectionsLevel

SpecLevels == InitLevels /\ [][NextLevels]_vars

\* The rate-limited /api router of an installed shop without overrides:
\* the product asked about is restricted by default.
InitRate ==
  /\ app_settings = {SettingsRow("s1", [is_enabled |-> "true",
                        butterfly_paid_tag |-> DefaultTag,
                        education_collections |-> DefaultEducation])}
  /\ product_restrictions = {}
  /\ collection_exceptions = {}
  /\ access_logs = <<>>
  /\ last = Idle
  /\ InitLimiter
  /\ InitSide

NextRate ==
  \/ Tick
  \/ ApiCheckAccess

SpecRate == InitRate /\ [][NextRate]_vars

\* The management routes and webhooks, from the state after setupDatabase.
NextAdmin ==
  \/ Install
  \/ Uninstall
  \/ AppUninstalled
  \/ AdminSettings
  \/ AdminRestriction
  \/ AdminException
  \/ ProductsCreate
  \/ ProductsUpdate
  \/ ProductsDelete
  \/ CheckAccessLogged

SpecAdmin == InitLevels /\ [][NextAdmin]_vars

\* Installation, status and uninstallation of the shops, with settings and
\* restriction updates in between
NextInstall ==
  \/ Install
  \/ Status
  \/ Uninstall
  \/ AppUninstalled
  \/ AdminSettings
  \/ AdminRestriction

SpecInstall == InitLevels /\ [][NextInstall]_vars

\* The two product listings, from any of the table contents the management
\* routes can have produced.
NextListing ==
  \/ ApiProducts
  \/ AdminProductsListing

SpecListing == Init /\ [][NextListing]_vars

\* Log rows written over several days and the analytics read from them
NextAnalytics ==
  \/ TickDay
  \/ LogAccess
  \/ GetAnalytics

SpecAnalytics == InitLevels /\ [][NextAnalytics]_vars

\* One bulkSetRestrictions call, its setRestriction calls interleaved at
\* their awaits, on a table with or without a row for product 1
InitUpsert ==
  /\ app_settings \in InitSettings
  /\ product_restrictions \in
       {{}, {[shop_domain |-> "s1", product_id |-> 1, is_restricted |-> TRUE,
              custom_message |-> JsNull]}}
  /\ collection_exceptions = {}
  /\ access_logs = <<>>
  /\ last = Idle
  /\ InitLimiter
  /\ InitSide

NextUpsert ==
  \/ BulkSetRestrictions
  \/ GetByProduct
  \/ UpdateOrInsert

SpecUpsert == InitUpsert /\ [][NextUpsert]_vars

\* One checkout of shop s1, on tables in which product 2 is unrestricted by
\* an override row and typed products by a collection exception
InitCheckout ==
  /\ app_settings = {SettingsRow("s1", defaultSettings)}
  /\ product_restrictions =
       {[shop_domain |-> "s1", product_id |-> 2, is_restricted |-> FALSE,
         custom_message |-> JsNull]}
  /\ collection_exceptions =
       {[shop_domain |-> "s1", collection_id |-> 10, is_exception |-> TRUE]}
  /\ access_logs = <<>>
  /\ last = Idle
  /\ InitLimiter
  /\ InitSide

NextCheckout ==
  \/ Mount
  \/ CartChanges
  \/ Respond
  \/ Applied

SpecCheckout == InitCheckout /\ [][NextCheckout]_vars

\* The settings forms of the live admin and the theme's reads
NextSettingsFile ==
  \/ PutAccessControl
  \/ PutMessages
  \/ GetSettings
  \/ GetMessages

SpecSettingsFile == InitLevels /\ [][NextSettingsFile]_vars

(***************************************************************************)
(* Properties                                                              *)
(***************************************************************************)
\* a single-item decision was returned (check-access route or middleware)
SingleDecided ==
  /\ last.op \in {"check-access", "middleware"}
  /\ last.res.status = 200

CartDecided ==
  /\ last.op = "validate-cart"
  /\ last.res.status = 200

\* getProduct or getCollections failed during the resolution
CatalogFetchFailed(env) ==
  \/ env.product = "throw"
  \/ env.product = "typed" /\ ~env.collOk

HasOverride(shopDomain, productId) == RestrictionRows(shopDomain, productId) # {}

OverrideOf(shopDomain, productId) ==
  CHOOSE r \in RestrictionRows(shopDomain, productId) : TRUE

\* the granting tag is an element of the customer's comma-separated tag list
HoldsTag(customerId, tag) ==
  /\ customerId \in CustIds
  /\ ListIncludes(TagList(CustomerTags[customerId]), tag)

\* C1: fail-closed. When the catalog fetch fails while an item without an
\* override is being resolved, check-access and validate-cart deny that item
\* for every customer, holders of the granting tag included.
C1_FailClosed ==
  /\ (SingleDecided /\ last.op = "check-access"
        /\ ~HasOverride(last.shop, last.productId)
        /\ CatalogFetchFailed(last.env))
       => ~last.res.body.hasAccess
  /\ CartDecided =>
       \A i \in 1..Len(last.cartItems) :
          (~HasOverride(last.shop, last.cartItems[i].product_id)
             /\ CatalogFetchFailed(last.cartItems[i].env))
            => ~last.res.body.items[i].hasAccess

\* C2: override precedence. When a product_restrictions row exists for
\* (shop, product), the resolution is that row's is_restricted, whatever the
\* shop's collection exceptions and whatever the catalog answers: the single
\* decision is 'not_restricted' exactly when the row says unrestricted, the
\* cart entry reports the row's value, and so does isProductRestricted for
\* every catalog answer.
C2_OverridePrecedence ==
  /\ (SingleDecided /\ HasOverride(last.shop, last.productId))
       => ((last.res.body.reason = "not_restricted")
             <=> ~OverrideOf(last.shop, last.productId).is_restricted)
  /\ CartDecided =>
       \A i \in 1..Len(last.cartItems) :
          HasOverride(last.shop, last.cartItems[i].product_id)
            => last.res.body.items[i].isRestricted
                 = OverrideOf(last.shop, last.cartItems[i].product_id).is_restricted
  /\ \A r \in product_restrictions : \A env \in CatalogEnvs :
       isProductRestricted(r.product_id, r.shop_domain, env) = r.is_restricted

\* C2 witness: an override says restricted while an exception collection of
\* the same shop is listed by the catalog, and the decision was not
\* 'not_restricted'.
C2_Witness ==
  /\ SingleDecided
  /\ HasOverride(last.shop, last.productId)
  /\ OverrideOf(last.shop, last.productId).is_restricted
  /\ last.env.product = "typed" /\ last.env.collOk
  /\ \E ex \in ExceptionRows(last.shop) :
        ex.is_exception /\ ex.collection_id \in last.env.collections
  /\ last.res.body.reason # "not_restricted"

\* C3: verdict rule. With the customer's tags fetched, the single-item
\* decision allows exactly when the item is unrestricted or the customer
\* holds the granting tag.
C3_VerdictRule ==
  (SingleDecided /\ last.fetch.kind = "ok")
    => (last.res.body.hasAccess
          <=> (~isProductRestricted(last.productId, last.shop, last.env)
                 \/ HoldsTag(last.customerId, DefaultTag)))

\* C4: collection-derived resolution uses only the item's own memberships.
\* Without an override, and with no exception on a collection the product
\* belongs to, the item stays restricted.
C4_OwnMembershipsOnly ==
  (SingleDecided
     /\ ~HasOverride(last.shop, last.productId)
     /\ ~\E ex \in ExceptionRows(last.shop) :
           ex.is_exception /\ ex.collection_id \in last.env.memberOf)
    => last.res.body.reason # "not_restricted"

ProductMatches(product, pieces) ==
  \E w \in pieces :
     IncludesPiece(product.tags, w) \/ IncludesPiece(ToLowerCase(product.title), w)

CollectionMatchesEducation(collection) ==
  \/ IncludesPiece(ToLowerCase(collection.handle), "education")
  \/ IncludesPiece(ToLowerCase(collection.handle), "course")
  \/ IncludesPiece(ToLowerCase(collection.title), "education")

CollectionMatchesButterfly(collection) ==
  \E w \in {"butterfly", "flutter"} :
     \/ IncludesPiece(ToLowerCase(collection.handle), w)
     \/ IncludesPiece(ToLowerCase(collection.title), w)

NotHasAccess(result) == ~result.hasAccess

\* C6: batch correctness. validate-cart returns one result per submitted
\* item, in order; each result's verdict is the single-item verdict for that
\* item and customer; valid is the conjunction of the per-item verdicts; and
\* restrictedItems is exactly the results whose verdict is deny.
C6_BatchCorrectness ==
  CartDecided =>
    LET cart == last.cartItems
        body == last.res.body
    IN /\ Len(body.items) = Len(cart)
       /\ \A i \in 1..Len(cart) :
            /\ body.items[i].productId = cart[i].product_id
            /\ body.items[i].hasAccess =
                 checkAccess(last.shop, cart[i].product_id, last.customerId,
                             last.fetch, cart[i].env, TRUE).body.hasAccess
       /\ body.valid <=> \A i \in 1..Len(body.items) : body.items[i].hasAccess
       /\ body.restrictedItems = SelectSeq(body.items, NotHasAccess)

\* C6 witness: a cart of two items, the first denied and the second allowed.
C6_Witness ==
  /\ CartDecided
  /\ Len(last.cartItems) = 2
  /\ ~last.res.body.items[1].hasAccess
  /\ last.res.body.items[2].hasAccess
  /\ ~last.res.body.valid
  /\ Len(last.res.body.restrictedItems) = 1

\* C8: classifier. A customer is classified at the butterfly tier exactly
\* when 'butterfly_paid' is an element of the customer's tag list: by
\* customer-status, by the /customers listing (where 'verified' alone gives
\* verified and no granting tag gives public), and by the dashboard counts.
C8_Classifier ==
  /\ (last.op = "customer-status" /\ last.res.status = 200
        /\ last.fetch.kind = "ok")
       => (last.res.body.hasAccess <=> HoldsTag(last.customerId, DefaultTag))
  /\ (last.op = "customers" /\ last.res.status = 200) =>
       \A c \in last.customers :
          last.res.accessLevel[c] =
            IF HoldsTag(c, DefaultTag) THEN "butterfly"
            ELSE IF HoldsTag(c, VerifiedTag) THEN "verified"
            ELSE "public"
  /\ (last.op = "dashboard" /\ last.res.status = 200) =>
       last.res.stats.butterflyPaidCustomers =
         Cardinality({c \in last.customers : HoldsTag(c, DefaultTag)})

\* C9: anonymous customers. A check-access request with the path segment
\* 'null', or a validate-cart request with customerId null, on a restricted
\* item is answered hasAccess = false with reason 'not_logged_in'.
C9_Anonymous ==
  /\ (SingleDecided /\ last.op = "check-access" /\ last.customerId = "null"
        /\ isProductRestricted(last.productId, last.shop, last.env))
       => (~last.res.body.hasAccess /\ last.res.body.reason = "not_logged_in")
  /\ (CartDecided /\ last.customerId = JsNull) =>
       \A i \in 1..Len(last.cartItems) :
          last.res.body.items[i].isRestricted =>
            (~last.res.body.items[i].hasAccess
               /\ last.res.body.items[i].reason = "not_logged_in")

\* C10: the granting tag is the tenant's butterfly_paid_tag setting. For a
\* shop whose settings row names tag X, a decision on a restricted item with
\* the customer's tags fetched grants access exactly when the tags contain X.
C10_PolicyTag ==
  \A st \in app_settings :
     /\ (SingleDecided /\ last.shop = st.shop_domain /\ last.fetch.kind = "ok"
           /\ isProductRestricted(last.productId, last.shop, last.env))
          => (last.res.body.hasAccess
                <=> Includes(last.fetch.tags, st.butterfly_paid_tag))
     /\ (CartDecided /\ last.shop = st.shop_domain /\ last.fetch.kind = "ok"
           /\ last.customerId # JsNull)
          => \A i \in 1..Len(last.cartItems) :
                last.res.body.items[i].isRestricted =>
                  (last.res.body.items[i].hasAccess
                     <=> Includes(last.fetch.tags, st.butterfly_paid_tag))
     /\ (last.op = "orders/create" /\ last.res.status = 200
           /\ last.shop = st.shop_domain /\ last.fetch.kind = "ok"
           /\ last.customerId # JsNull /\ last.res.restrictedItems # {})
          => (~last.res.shouldCancel
                <=> Includes(last.fetch.tags, st.butterfly_paid_tag))

(***************************************************************************)
(* Rate limiter                                                            *)
(***************************************************************************)
\* the latest request went through the limiter
Limited == last.op = "api/check-access"

\* the admissions of key with admission time in (t - windowMs, t]
AdmittedIn(key, t) ==
  SelectSeq(admitted[key], LAMBDA a : a > t - windowMs /\ a <= t)

\* the admissions of the latest caller before its latest call
PriorAdmitted ==
  IF last.admit
    THEN SubSeq(admitted[last.key], 1, Len(admitted[last.key]) - 1)
    ELSE admitted[last.key]

\* the timestamps of a list that are inside the window ending now
InWindow(timestamps) == SelectSeq(timestamps, LAMBDA a : a > now - windowMs)

\* the timestamps the map holds for key ([] when the key is absent)
Held(key) == IF key \in DOMAIN requests THEN requests[key] ELSE <<>>

\* the callers that made a request, admitted or not, within the last windowMs
RecentCallers ==
  {key \in Keys : lastCall[key] # -1 /\ lastCall[key] > now - windowMs}

\* C12: rate limiter sequence with window = 60 s and max = 3. A call from a
\* key that has fewer than max admissions inside the window ending at the
\* call is admitted (the first, second and third call); a call from a key
\* that already has max admissions inside that window is rejected with 429
\* (the fourth); and a call made 61 s or more after the first of the key's
\* latest max admissions is admitted again.
C12_RateLimiterSequence ==
  Limited =>
    LET prior == PriorAdmitted
        inWindow == SelectSeq(prior, LAMBDA a : a > last.at - windowMs)
    IN /\ Len(inWindow) < max => last.admit
       /\ Len(inWindow) >= max => ~last.admit /\ last.res.status = 429
       /\ (Len(prior) >= max /\ last.at >= prior[Len(prior) - max + 1] + 61000)
            => last.admit

\* C12 witness: a key was admitted three times inside one window starting
\* at its first call, and its call 61 s after the first has been admitted.
C12_Witness ==
  /\ Limited
  /\ last.admit
  /\ Len(admitted[last.key]) = max + 1
  /\ admitted[last.key][max] < admitted[last.key][1] + windowMs
  /\ last.at = admitted[last.key][1] + 61000

\* C13: rate limiter bound under concurrency. The middleware runs to
\* completion on the event loop, so concurrent requests are calls at the
\* same instant in any order. For every key and every instant t the number
\* of requests admitted in (t - windowMs, t] is at most max, and the key's
\* list holds every admitted timestamp that is still inside the window.
C13_RateLimiterBound ==
  \A key \in Keys :
    /\ \A t \in Instants : Len(AdmittedIn(key, t)) <= max
    /\ AdmittedIn(key, now) = InWindow(Held(key))

\* C13 witness: max requests of one key were admitted at the same instant,
\* a further one of that key was rejected at that instant, and the other
\* key called at that instant too.
C13_Witness ==
  /\ Limited
  /\ ~last.admit
  /\ last.at = now
  /\ Len(SelectSeq(admitted[last.key], LAMBDA a : a = now)) = max
  /\ \E other \in Keys \ {last.key} : lastCall[other] = now

\* C14: memory release. At every moment the map holds no key whose
\* timestamps are all outside the window, and the number of keys does not
\* exceed the number of distinct callers of the last windowMs.
C14_MemoryRelease ==
  /\ \A key \in DOMAIN requests :
       InWindow(requests[key]) # <<>>
  /\ Cardinality(DOMAIN requests) <= Cardinality(RecentCallers)

\* C14 as the code has it: the same holds right after a call, whose
\* clean-up loop has just run; a key stays in the map until then.
C14_ReleasedAfterCall ==
  (Limited /\ last.at = now) =>
    /\ \A key \in DOMAIN requests :
         InWindow(requests[key]) # <<>>
    /\ Cardinality(DOMAIN requests) <= Cardinality(RecentCallers)

\* C14 witness: a call has just removed the key of another caller whose
\* admissions had all left the window.
C14_Witness ==
  /\ Limited
  /\ last.at = now
  /\ \E key \in Keys \ {last.key} :
       admitted[key] # <<>> /\ key \notin DOMAIN requests

\* C19: a request the limiter answers with 429 writes no access_logs record
\* and its route handler does not run.
C19_RateLimitedNotDecided ==
  [][(Limited' /\ last'.res.status = 429)
       => (access_logs' = access_logs /\ ~last'.handled)]_vars

\* C19 witness: the fourth request of a window was answered 429 while the
\* three admitted before it were each logged.
C19_Witness ==
  /\ Limited
  /\ last.res.status = 429
  /\ Len(access_logs) = max
  /\ Len(admitted[last.key]) = max

(***************************************************************************)
(* Management routes and webhooks                                          *)
(***************************************************************************)
\* the rows of one shop in the four tables
ShopRows(shop) ==
  [settings |-> {r \in app_settings : r.shop_domain = shop},
   restrictions |-> {r \in product_restrictions : r.shop_domain = shop},
   exceptions |-> {r \in collection_exceptions : r.shop_domain = shop},
   logs |-> SelectSeq(access_logs, LAMBDA row : row.shop_domain = shop)]

UninstallOps == {"auth/uninstall", "webhooks/app/uninstalled"}

ProductWebhookOps == {"webhooks/products/create", "webhooks/products/update"}

\* the catalog answers as far as isProductRestricted reads them
ResolutionEnvs == {env \in CatalogEnvs : env.memberOf = {}}

\* C11: tenant isolation. A request served for one shop leaves every other
\* shop's settings, restriction, exception and log rows unchanged, and with
\* them the result of isProductRestricted (for every product and catalog
\* answer) and of getAnalytics for that other shop.
C11_TenantIsolation ==
  [][\A b \in Shops :
       (last'.op # "none" /\ last'.shop # b) =>
         /\ ShopRows(b)' = ShopRows(b)
         /\ \A p \in Products, env \in ResolutionEnvs :
              isProductRestricted(p, b, env)' = isProductRestricted(p, b, env)
         /\ getAnalytics(b, 30)' = getAnalytics(b, 30)]_vars

\* C11 witness: one shop has just been uninstalled while the other shop
\* holds a settings row, a restriction, an exception and a log record.
C11_Witness ==
  /\ last.op \in UninstallOps
  /\ \E b \in Shops \ {last.shop} :
       /\ ShopRows(b).settings # {}
       /\ ShopRows(b).restrictions # {}
       /\ ShopRows(b).exceptions # {}
       /\ ShopRows(b).logs # <<>>
       /\ getAnalytics(b, 30) # {}

\* C15: idempotent upsert. There is never more than one product_restrictions
\* row per (shop, product), one collection_exceptions row per (shop,
\* collection) or one app_settings row per shop, and after a successful
\* setRestriction, setException or settings createOrUpdate the row of that
\* key carries the values of that call.
C15_IdempotentUpsert ==
  /\ \A shop \in Shops :
       /\ Cardinality(SettingsRows(shop)) <= 1
       /\ \A p \in Products : Cardinality(RestrictionRows(shop, p)) <= 1
       /\ \A c \in Collections : Cardinality(ExceptionRow(shop, c)) <= 1
  /\ (last.op = "admin/restriction" /\ last.res.status = 200) =>
       RestrictionRows(last.shop, last.productId) =
         {[shop_domain |-> last.shop, product_id |-> last.productId,
           is_restricted |-> last.isRestricted,
           custom_message |-> last.customMessage]}
  /\ (last.op = "admin/exception" /\ last.res.status = 200) =>
       ExceptionRow(last.shop, last.collectionId) =
         {[shop_domain |-> last.shop, collection_id |-> last.collectionId,
           is_exception |-> last.isException]}
  /\ (last.op = "admin/settings" /\ last.res.status = 200) =>
       SettingsRows(last.shop) = {SettingsRow(last.shop, last.res.settings)}

\* C15 witness: setRestriction has just replaced the values of a row that
\* existed, with a custom message, while the other tables hold rows too.
C15_Witness ==
  /\ last.op = "admin/restriction"
  /\ last.res.status = 200
  /\ last.updated
  /\ last.customMessage # JsNull
  /\ ~last.isRestricted
  /\ ExceptionRows(last.shop) # {}

\* C16: a products/create or products/update webhook leaves is_restricted
\* and custom_message of an existing product_restrictions row of that
\* (shop, product) as they were.
C16_WebhooksKeepOverrides ==
  [][last'.op \in ProductWebhookOps =>
       \A r \in RestrictionRows(last'.shop, last'.productId) :
         \E r2 \in product_restrictions' :
           /\ r2.shop_domain = r.shop_domain
           /\ r2.product_id = r.product_id
           /\ r2.is_restricted = r.is_restricted
           /\ r2.custom_message = r.custom_message]_vars

\* C20: the audit log is append-only. Every step keeps the records written
\* so far, in place and unchanged; so no shop's record count decreases.
C20_AppendOnly ==
  [][/\ Len(access_logs') >= Len(access_logs)
     /\ SubSeq(access_logs', 1, Len(access_logs)) = access_logs]_vars

\* C20 witness: a shop that has log records was uninstalled and its
\* records are still there.
C20_Witness ==
  /\ last.op \in UninstallOps
  /\ ShopRows(last.shop).logs # <<>>
  /\ ShopRows(last.shop).settings = {}

(***************************************************************************)
(* Audit log of the decision handlers                                      *)
(***************************************************************************)
\* the record AccessLogs.log writes for the decision just returned
DecisionRecord(request) ==
  [shop_domain |-> request.shop, product_id |-> request.productId,
   customer_id |-> request.customerId,
   access_type |-> IF request.res.body.hasAccess THEN "allowed"
                   ELSE request.res.body.reason,
   created_at |-> now]

C18_LoggingNeverFails ==
  (/\ last.op \in {"check-access", "middleware"}
   /\ last.shop # JsNull
   /\ ~last.logOk) =>
    LET logged ==
          IF last.op = "check-access"
            THEN checkAccess(last.shop, last.productId, last.customerId,
                             last.fetch, last.env, TRUE)
            ELSE validateCustomerAccessMiddleware(last.shop, last.productId,
                             last.customerId, last.fetch, last.env, TRUE)
    IN /\ last.res.status = logged.status
       /\ last.res.body = logged.body
(***************************************************************************)
(* Installation                                                            *)
(***************************************************************************)
\* the settings rows some table holds for a shop
RowsOf(table, shop) == {r \in table : r.shop_domain = shop}

\* the row GET /api/auth/install creates
InstalledRow(shop) ==
  [shop_domain |-> shop, is_enabled |-> "true",
   butterfly_paid_tag |-> <<"butterfly_paid">>,
   education_collections |-> <<"courses", ",", "in-person-education-1">>]

\* a step of GET /api/auth/install answers and writes as an idempotent
\* install does
InstallStep ==
  last'.op = "auth/install" =>
    IF RowsOf(app_settings, last'.shop) = {}
      THEN /\ last'.res.message = "App installed successfully"
           /\ RowsOf(app_settings', last'.shop) = {InstalledRow(last'.shop)}
           /\ \A s \in Shops \ {last'.shop} :
                RowsOf(app_settings', s) = RowsOf(app_settings, s)
      ELSE /\ last'.res.message = "App already installed"
           /\ {last'.res.settings} = RowsOf(app_settings, last'.shop)
           /\ app_settings' = app_settings

\* a step of GET /api/auth/status reports whether the shop has a row
StatusStep ==
  last'.op = "auth/status" =>
    /\ last'.res.installed = (RowsOf(app_settings, last'.shop) # {})
    /\ app_settings' = app_settings

\* a shop's row appears only by its install, disappears only by its uninstall
InstalledChange ==
  \A s \in Shops :
    /\ (RowsOf(app_settings, s) = {} /\ RowsOf(app_settings', s) # {})
         => (last'.op = "auth/install" /\ last'.shop = s)
    /\ (RowsOf(app_settings, s) # {} /\ RowsOf(app_settings', s) = {})
         => (last'.op \in UninstallOps /\ last'.shop = s)

\* C23: install is idempotent.  The install of a shop without a settings row
\* creates exactly the default row and answers 'App installed successfully';
\* the install of a shop with a row answers 'App already installed', returns
\* the stored row and leaves app_settings as it was, whatever the row holds;
\* status reports installed exactly when the shop has a settings row, and a
\* shop's row appears only by its install and disappears only by its
\* uninstall.
C23_InstallIdempotent == [][InstallStep /\ StatusStep /\ InstalledChange]_vars

\* a second install arrived after the settings were changed, and left them
C23_Witness ==
  /\ last.op = "auth/install"
  /\ last.res.message = "App already installed"
  /\ last.res.settings.butterfly_paid_tag # <<"butterfly_paid">>
  /\ RowsOf(app_settings, last.shop) = {last.res.settings}

\* status answered installed=false for a shop that was uninstalled
C23_StatusWitness ==
  /\ last.op = "auth/status"
  /\ ~last.res.installed
  /\ last.shop = "s1"

(***************************************************************************)
(* products/update webhook                                                 *)
(***************************************************************************)
\* the restriction rows some table holds for a product of a shop
RestrictionsOf(table, shop, productId) ==
  {r \in table : r.shop_domain = shop /\ r.product_id = productId}

\* C26: products/update postcondition.  When the shop has settings and a
\* row exists for the product, after the webhook the row's is_restricted is
\* the negation of "the product type matches an education collection" and
\* its custom_message is the one it had; every other row is as it was.  When
\* no row exists for the product, or the shop has no settings,
\* product_restrictions is as it was.
C26_ProductsUpdatePostcondition ==
  [][last'.op = "webhooks/products/update" =>
       LET settings == RowsOf(app_settings, last'.shop)
           rows == RestrictionsOf(product_restrictions, last'.shop,
                                  last'.productId)
           after == RestrictionsOf(product_restrictions', last'.shop,
                                   last'.productId)
       IN IF settings # {} /\ rows # {}
            THEN /\ product_restrictions' \ after = product_restrictions \ rows
                 /\ \A r \in rows :
                      after = {[r EXCEPT !.is_restricted =
                                  ~isException(CHOOSE st \in settings : TRUE,
                                               last'.product_type)]}
            ELSE product_restrictions' = product_restrictions]_vars

\* the same postcondition for the steps served with the pg client
C26_PostconditionWithBooleans ==
  [][(last'.op = "webhooks/products/update" /\ last'.client = "pg") =>
       LET settings == RowsOf(app_settings, last'.shop)
           rows == RestrictionsOf(product_restrictions, last'.shop,
                                  last'.productId)
           after == RestrictionsOf(product_restrictions', last'.shop,
                                   last'.productId)
       IN IF settings # {} /\ rows # {}
            THEN /\ product_restrictions' \ after = product_restrictions \ rows
                 /\ \A r \in rows :
                      after = {[r EXCEPT !.is_restricted =
                                  ~isException(CHOOSE st \in settings : TRUE,
                                               last'.product_type)]}
            ELSE product_restrictions' = product_restrictions]_vars

(***************************************************************************)
(* Product listings                                                        *)
(***************************************************************************)
\* the listed products whose resolution reads the shop's collection list
NeedCollections(request) ==
  {id \in DOMAIN request.isRestricted :
     /\ RestrictionsOf(product_restrictions, request.shop, id) = {}
     /\ request.envs[id].product = "typed"}

\* C22: fetch coalescing.  The parallel isProductRestricted calls of one
\* GET /api/products that need the shop's collection list trigger exactly
\* one upstream fetch of it, and each listed product is fetched at most once.
C22_FetchCoalescing ==
  last.op = "api/products" =>
    /\ last.collectionFetches = IF NeedCollections(last) # {} THEN 1 ELSE 0
    /\ \A id \in DOMAIN last.productFetches : last.productFetches[id] <= 1

\* C27: the admin listing agrees with the decision engine.  For every
\* product GET /api/admin/products lists, the isRestricted it reports is the
\* value isProductRestricted returns for that product in the same tables
\* and with the same catalog answers, override row or not.
C27_ListingAgreesWithDecision ==
  last.op = "admin/products" =>
    \A id \in DOMAIN last.isRestricted :
      last.isRestricted[id] = isProductRestricted(id, last.shop, last.envs[id])

(***************************************************************************)
(* Analytics                                                               *)
(***************************************************************************)
\* the number a returned count stands for
RECURSIVE FromDecimal(_)
FromDecimal(digits) ==
  IF Len(digits) = 1 THEN digits[1]
  ELSE 10 * FromDecimal(SubSeq(digits, 1, Len(digits) - 1))
         + digits[Len(digits)]

CountValue(count) ==
  IF "string" \in DOMAIN count THEN FromDecimal(count.string)
  ELSE count.number

\* the log rows of the request's shop created within its range: startDate
\* is request.days days before the request, and lies before the first
\* instant when the range is longer than the time passed
RowsInRange(request) ==
  {i \in 1..Len(access_logs) :
     /\ access_logs[i].shop_domain = request.shop
     /\ \/ request.days * 86400 > request.at \div 1000
        \/ access_logs[i].created_at >= request.at - request.days * DayMs}

\* C21: analytics aggregation.  GET /api/analytics returns one entry per
\* access_type that occurs among the shop's log rows created within the last
\* `days` days, and each entry's count is the number of such rows with that
\* access_type; rows of other shops and older rows contribute nothing.
C21_AnalyticsAggregation ==
  last.op = "api/analytics" =>
    LET rows == RowsInRange(last)
        entries == last.res.analytics
    IN /\ {e.access_type : e \in entries}
            = {access_logs[i].access_type : i \in rows}
       /\ \A e1, e2 \in entries :
            e1.access_type = e2.access_type => e1 = e2
       /\ \A e \in entries :
            CountValue(e.count)
              = Cardinality({i \in rows :
                               access_logs[i].access_type = e.access_type})

\* analytics were read for a shop that has a row in range, which is counted,
\* and a row that is too old, which is not
C21_Witness ==
  /\ last.op = "api/analytics"
  /\ last.res.analytics # {}
  /\ \E i \in 1..Len(access_logs) :
       access_logs[i].shop_domain = last.shop /\ i \notin RowsInRange(last)

\* analytics were read for a shop while only the other shop has rows
C21_OtherShopWitness ==
  /\ last.op = "api/analytics"
  /\ last.res.analytics = {}
  /\ Len(access_logs) = MaxAnalyticsLogs

(***************************************************************************)
(* The settings file                                                       *)
(***************************************************************************)
\* a read returns, for each of these fields that was saved, the value most
\* recently saved
ReturnsSaved(request, Fields) ==
  \A k \in Fields \cap DOMAIN settings_file.saved :
    /\ k \in DOMAIN request.res.settings
    /\ request.res.settings[k] = settings_file.saved[k]

\* C28: saved settings survive unrelated saves.  After any sequence of
\* PUT /access-control and PUT /messages requests, GET /messages returns for
\* every message field the value most recently saved through PUT /messages
\* and GET /settings returns for every access-control field the value most
\* recently saved through PUT /access-control.
C28_SavedSettingsSurvive ==
  /\ last.op = "live/get-messages" => ReturnsSaved(last, MessageFields)
  /\ last.op = "live/get-settings" => ReturnsSaved(last, AccessControlFields)

\* the access-control half of the claim: the fields saved through
\* PUT /access-control are returned by GET /settings whatever was saved
\* through PUT /messages in between
C28_AccessControlSurvives ==
  last.op = "live/get-settings" => ReturnsSaved(last, AccessControlFields)

(***************************************************************************)
(* Concurrent upserts                                                      *)
(***************************************************************************)
\* the calls in progress for a product
CallsFor(productId) ==
  {i \in 1..Len(upserts) : upserts[i].call.product_id = productId}

\* C25: concurrent upserts on one key are safe.  Once two or more
\* setRestriction calls for the same (shop, product) have all finished, in
\* whatever order their reads and writes ran, none of them has failed and
\* the table holds exactly one row for the key, with the values of one of
\* the calls.
C25_ConcurrentUpsertsSafe ==
  \A productId \in Products :
    LET calls == CallsFor(productId)
        rows == RestrictionsOf(product_restrictions, "s1", productId)
    IN (/\ Cardinality(calls) >= 2
        /\ \A i \in calls : upserts[i].pc \in {"done", "error"})
       => /\ \A i \in calls : upserts[i].pc = "done"
          /\ Cardinality(rows) = 1
          /\ \E i \in calls : rows = {UpsertRow(upserts[i].call)}

\* what holds instead: the table never holds two rows for one key
C25_OneRowPerKey ==
  \A productId \in Products :
    Cardinality(RestrictionsOf(product_restrictions, "s1", productId)) <= 1

(***************************************************************************)
(* The checkout extension                                                  *)
(***************************************************************************)
\* the checks whose request got a 200 body
AnsweredChecks ==
  {i \in 1..Len(checkout.checks) : checkout.checks[i].outcome = "ok"}

\* the lines of a check whose own item the response reports as denied
DeniedLines(check) ==
  {check.cartLines[k].id :
     k \in {j \in 1..Len(check.items) :
              check.items[j].isRestricted /\ ~check.items[j].hasAccess}}

\* the variants of a set of lines of a check
VariantsOf(check, ids) ==
  {check.cartLines[k].variant :
     k \in {j \in 1..Len(check.cartLines) : check.cartLines[j].id \in ids}}

\* C24: the checkout caller removes exactly the denied lines.  After a
\* successful validate-cart response the removals handed to
\* applyCartLinesChange are exactly the lines whose item the response
\* reports as denied: no line of an allowed item is removed and no line of a
\* denied item is kept.
C24_RemovesExactlyDenied ==
  \A i \in AnsweredChecks :
    checkout.checks[i].changes = DeniedLines(checkout.checks[i])

\* what holds instead: every line of a denied item is removed, and a removed
\* line carries the variant of a denied item
C24_RemovesDeniedVariants ==
  \A i \in AnsweredChecks :
    LET check == checkout.checks[i]
    IN /\ DeniedLines(check) \subseteq check.changes
       /\ VariantsOf(check, check.changes)
            \subseteq VariantsOf(check, DeniedLines(check))

\* a successful response after which one line was removed and one kept
C24_SomeRemovedSomeKept ==
  \E i \in AnsweredChecks :
    LET check == checkout.checks[i]
    IN /\ check.changes # {}
       /\ check.changes = DeniedLines(check)
       /\ Len(check.cartLines) > Cardinality(check.changes)

\* C29: the extension does not fail open.  When a validate-cart request has
\* just failed or returned an error body, the extension is not in the state
\* isChecking = false, hasRestrictedItems = false, unless a successful
\* response for the current cart and customer reported no restricted items.
C29_NoFailOpen ==
  (/\ last.op = "checkout/respond"
   /\ last.outcome \in {"error", "fail"})
  => \/ checkout.isChecking
     \/ checkout.hasRestrictedItems
     \/ <<checkout.cartLines, checkout.customer>> \in checkout.cleared

\* every request that has ended got a 200 body
OnlySuccessfulResponses ==
  \A i \in 1..Len(checkout.checks) :
    checkout.checks[i].outcome \in {"none", "ok"}

\* C30: overlapping cart checks do not leave stale state.  With successful
\* responses only: isChecking is false only when no validate-cart request
\* is in flight, and once two or more checks have all completed,
\* restrictedItems and hasRestrictedItems are those of the response to the
\* latest check, the one for the latest cart and customer.
C30_NoStaleState ==
  (checkout.mounted /\ OnlySuccessfulResponses) =>
    LET n == Len(checkout.checks)
        latest == checkout.checks[n]
    IN /\ ~checkout.isChecking =>
            \A i \in 1..n : checkout.checks[i].pc # "fetch"
       /\ (n >= 2 /\ \A i \in 1..n : checkout.checks[i].pc = "done") =>
            /\ checkout.restrictedItems = latest.restrictedItems
            /\ checkout.hasRestrictedItems = (Len(latest.restrictedItems) > 0)

\* the second half of C30 alone, which fails as well
C30_LatestResponseShown ==
  (checkout.mounted /\ OnlySuccessfulResponses) =>
    LET n == Len(checkout.checks)
        latest == checkout.checks[n]
    IN (n >= 2 /\ \A i \in 1..n : checkout.checks[i].pc = "done") =>
         /\ checkout.restrictedItems = latest.restrictedItems
         /\ checkout.hasRestrictedItems = (Len(latest.restrictedItems) > 0)

====
